---- MODULE Spec2Model ----
(***************************************************************************)
(* Model of the CSPRNG benchmarking harness: the keyed-stream generators   *)
(* (HMAC counter mode with reseed), their entropy gathering, and the       *)
(* concurrent benchmark orchestrator.                                      *)
(*                                                                         *)
(* Byte strings are sequences over 0..255.  crypto/hmac and crypto/sha256  *)
(* are library code; they are represented by a small deterministic mixing  *)
(* function that is sensitive to every byte of key and message and yields  *)
(* a 32-byte digest.  Wall-clock time is a counter in seconds.             *)
(***************************************************************************)
EXTENDS Integers, Sequences, FiniteSets, TLC

VARIABLES
    variant,    \* which draft of the keyed-stream generator is under test
    gen,        \* the generator instance: state, counter, bytesGenerated, lastReseed
    ctor,       \* position of the constructor: "new", "seeding", "done"
    mutex,      \* holder of the instance's sync.Mutex (0 = unlocked)
    thr,        \* per caller thread: position in GenerateBytes and its locals
    now,        \* wall clock
    hist,       \* completed GenerateBytes calls in the order they took the mutex
    gen0,       \* the instance as the constructor (or the earlier history) left it
    ctorObs,    \* what the constructor's entropy pass observed
    \* -- replay of one call script on two instances
    twin,       \* the two instances: generator, outputs so far, reseed seen
    script,     \* the sizes of the calls issued so far
    \* -- one entropy-gathering pass of the three-source generator
    gmode,      \* "jitter": gatherEntropy; "chan": initCustomCSPRNG
    gpc,        \* position of the gathering function
    task,       \* the three source goroutines: position and outcome
    data,       \* weatherData, marketData, networkData
    probe,      \* the per-endpoint goroutines of getNetworkJitter
    latencies,  \* the latencies slice, guarded by its own mutex
    results,    \* the buffered results channel of initCustomCSPRNG
    gwg,        \* WaitGroup counter of the three source goroutines
    nwg,        \* WaitGroup counter of the probes
    entropy,    \* the combined text handed to sha256
    \* -- the benchmark orchestrator
    trial,      \* per trial goroutine: position, attempt, outcome
    semaphore,  \* number of slots taken in the semaphore channel
    resultsChannel, \* buffered channel of TestResult
    chClosed,   \* resultsChannel has been closed
    wg,         \* the WaitGroup counter
    tracker,    \* ProgressTracker.completed
    mainpc,     \* position of main and of the collector
    allResults, \* what the collector has gathered
    settings,   \* numRuns, maxConcurrency and the generators slice of main
    genMutex,   \* per generator instance: the trial holding its mutex, or 0
    stats,      \* the map returned by aggregateResults
    \* -- a function of the benchmark called on its own
    input,      \* the arguments of the call
    output      \* what the call returned

genVars == <<variant, gen, ctor, mutex, thr, now, hist, gen0, ctorObs>>
twinVars == <<twin, script>>
gatherVars == <<gmode, gpc, task, data, probe, latencies, results, gwg, nwg,
                entropy>>
orchVars == <<trial, semaphore, resultsChannel, chClosed, wg, tracker, mainpc,
              allResults, settings, genMutex, stats>>

analyzerVars == <<input, output>>

vars == <<genVars, twinVars, gatherVars, orchVars, analyzerVars>>

\* What the steps of one generator instance leave alone.
besideGen == <<twinVars, gatherVars, orchVars>>

(***************************************************************************)
(* Bounds of the model.                                                    *)
(***************************************************************************)
NumThreads == 2
MaxBytes == 33
MaxTicks == 1

(***************************************************************************)
(* Program constants.                                                      *)
(***************************************************************************)
BlockSize == 32
UpdateSlice == 32
RESEED_INTERVAL == 600
RESEED_BYTE_INTERVAL == 524288000

(***************************************************************************)
(* Byte-string helpers.                                                    *)
(***************************************************************************)
Min(a, b) == IF a < b THEN a ELSE b

Bytes == 0..255

\* SubSeq turns a function over 1..n into a plain tuple.
Tup(f, n) == SubSeq(f, 1, n)

Zeros(n) == Tup([i \in 1..n |-> 0], n)

Prefix(s, n) == SubSeq(s, 1, n)

\* copy(dst[at:], src): overwrite dst from offset at (0-based) with src.
Copy(dst, at, src) ==
    Tup([i \in 1..Len(dst) |->
            IF i > at /\ i <= at + Len(src) THEN src[i - at] ELSE dst[i]],
        Len(dst))

\* binary.BigEndian.PutUint64 for counters below 2^31 (the top four bytes are 0).
BE8(c) ==
    <<0, 0, 0, 0,
      (c \div 16777216) % 256, (c \div 65536) % 256, (c \div 256) % 256, c % 256>>

\* strconv.FormatInt(n, 10) / the %d verb, for n >= 0.
RECURSIVE Dec(_)
Dec(n) == IF n < 10 THEN <<48 + n>> ELSE Dec(n \div 10) \o <<48 + (n % 10)>>

(***************************************************************************)
(* Stand-in for SHA-256 and HMAC-SHA256: two multiplicative lanes folded   *)
(* over the input, expanded to 32 bytes.  The first four digest bytes      *)
(* carry both lanes, so distinct lane pairs give distinct digests.         *)
(***************************************************************************)
RECURSIVE Lane(_, _, _, _)
Lane(s, i, h, mult) ==
    IF i > Len(s) THEN h
    ELSE LET x == (h * mult + s[i] + 1) % 65521
         IN  IF x >= 0 THEN Lane(s, i + 1, x, mult) ELSE 0

Expand(h1, h2) ==
    Tup([i \in 1..BlockSize |->
            CASE i = 1 -> h1 % 256
              [] i = 2 -> h1 \div 256
              [] i = 3 -> h2 % 256
              [] i = 4 -> h2 \div 256
              [] OTHER -> ((h1 * i + h2 * (33 - i) + i * i) % 65521) % 256],
        BlockSize)

Sha256(msg) == Expand(Lane(msg, 1, 7, 31), Lane(msg, 1, 11, 257))

\* hmac.New(sha256.New, key); mac.Write(msg); mac.Sum(nil).  The key is
\* absorbed first, then a separator outside the byte range, then the message.
HmacSha256(key, msg) ==
    LET k1 == Lane(key, 1, 13, 31)
        k2 == Lane(key, 1, 17, 257)
        s1 == (k1 * 31 + 300) % 65521
        s2 == (k2 * 257 + 300) % 65521
    IN  Expand(Lane(msg, 1, s1, 31), Lane(msg, 1, s2, 257))

(***************************************************************************)
(* Text literals of the sources, as bytes.                                 *)
(***************************************************************************)
Bar == <<124>>
Comma == <<44>>
TxtUpdate == <<117,112,100,97,116,101>>
TxtError == <<101,114,114,111,114,58>>
TxtReadError == <<114,101,97,100,101,114,114,111,114,58>>
TxtWeatherError == <<119,101,97,116,104,101,114,95,101,114,114,111,114>>
TxtWeatherReadError == <<119,101,97,116,104,101,114,95,114,101,97,100,95,101,114,114,111,114>>
TxtMarketError == <<109,97,114,107,101,116,95,101,114,114,111,114>>
TxtMarketReadError == <<109,97,114,107,101,116,95,114,101,97,100,95,101,114,114,111,114>>
TxtNetworkError == <<110,101,116,119,111,114,107,95,101,114,114,111,114>>
TxtNetworkErrorAll == <<110,101,116,119,111,114,107,95,101,114,114,111,114,95,97,108,108>>
TxtFallbackSystem == <<102,97,108,108,98,97,99,107,95,115,121,115,116,101,109,95,101,110,116,114,111,112,121>>
TxtFatalSystemKey == <<102,97,116,97,108,95,115,121,115,116,101,109,95,101,110,116,114,111,112,121,95,114,101,97,100,95,101,114,114,111,114,95>>

(***************************************************************************)
(* What the outside world hands to one entropy-gathering pass.  Each HTTP  *)
(* fetch ends "ok" (a body), "err" (transport error or client timeout) or  *)
(* "readerr" (the body could not be read); rand.Read ends "ok" or "err".   *)
(***************************************************************************)
WeatherBody == <<123, 125>>
MarketBody == <<52, 50>>
SystemBytes == Tup([i \in 1..32 |-> (i * 7 + 3) % 256], 32)

FetchOutcomes == {"ok", "err", "readerr"}

\* One observation: outcome of the weather and market fetches, the latencies
\* of the probes that answered (in completion order), rand.Read's outcome,
\* and the measured duration of the weather fetch.
NoObs == [w |-> "ok", m |-> "ok", lat |-> <<>>, sys |-> "ok", dur |-> 0]

WeatherObs == {[NoObs EXCEPT !.w = o, !.dur = 3] : o \in FetchOutcomes}

HybridObs == {[NoObs EXCEPT !.w = o, !.sys = s, !.dur = 3] :
                 o \in {"ok", "err"}, s \in {"ok", "err"}}

\* The three-source drafts: the sources fail one after the other (every
\* combination of outcomes is explored where the fan-out itself is modelled).
MultiObs ==
    {[NoObs EXCEPT !.lat = <<5, 9>>],
     [NoObs EXCEPT !.w = "err", !.lat = <<5, 9>>],
     [NoObs EXCEPT !.w = "err", !.m = "err", !.lat = <<9>>],
     [NoObs EXCEPT !.w = "err", !.m = "err"]}

AllFailed(v, e) ==
    CASE v \in {"WeatherV1", "WeatherV3"} -> e.w # "ok"
      [] v \in {"HybridV2", "HybridV3"} -> e.w # "ok" /\ e.sys # "ok"
      [] OTHER -> e.w # "ok" /\ e.m # "ok" /\ e.lat = <<>>

(***************************************************************************)
(* Entropy gathering of each draft.                                        *)
(***************************************************************************)
\* WeatherCSPRNG.getWeatherEntropy: the body is empty unless the fetch
\* succeeded; a read error is ignored.
WeatherEntropy(e, start) ==
    LET body == IF e.w = "ok" THEN WeatherBody ELSE <<>>
    IN  Sha256(body \o Bar \o Dec(start) \o Bar \o Dec(e.dur))

\* HybridCSPRNG.getWeatherEntropy
HybridWeatherEntropy(e) ==
    CASE e.w = "err" -> TxtError \o Dec(e.dur)
      [] e.w = "readerr" -> TxtReadError \o Dec(e.dur)
      [] OTHER -> WeatherBody \o Dec(e.dur)

\* multEntropyCSPRNG.getWeather / getMarket
GetWeather(e) ==
    CASE e.w = "err" -> TxtWeatherError
      [] e.w = "readerr" -> TxtWeatherReadError
      [] OTHER -> WeatherBody

GetMarket(e) ==
    CASE e.m = "err" -> TxtMarketError
      [] e.m = "readerr" -> TxtMarketReadError
      [] OTHER -> MarketBody

\* strings.Join(latencies, ",")
RECURSIVE JoinComma(_)
JoinComma(l) ==
    IF Len(l) = 0 THEN <<>>
    ELSE IF Len(l) = 1 THEN Dec(l[1])
    ELSE Dec(l[1]) \o Comma \o JoinComma(Tail(l))

\* The tail of getNetworkJitter, after the probes have been joined.
NetworkJitterResult(lats) ==
    IF Len(lats) = 0 THEN TxtNetworkErrorAll ELSE JoinComma(lats)

\* The combine step of gatherEntropy: fmt.Sprintf("%s|%s|%s|%d", ...) hashed.
EntropyText(weather, market, network, ts) ==
    weather \o Bar \o market \o Bar \o network \o Bar \o Dec(ts)

CombineEntropy(weather, market, network, ts) ==
    Sha256(EntropyText(weather, market, network, ts))

\* The first three-source draft fetches one after the other and probes one
\* endpoint; a failed body read is ignored.
GatherEntropySeq(e, ts) ==
    CombineEntropy(IF e.w = "err" THEN TxtWeatherError
                   ELSE IF e.w = "ok" THEN WeatherBody ELSE <<>>,
                   IF e.m = "err" THEN TxtMarketError
                   ELSE IF e.m = "ok" THEN MarketBody ELSE <<>>,
                   IF Len(e.lat) = 0 THEN TxtNetworkError ELSE Dec(e.lat[1]),
                   ts)

GatherEntropy(e, ts) ==
    CombineEntropy(GetWeather(e), GetMarket(e), NetworkJitterResult(e.lat), ts)

(***************************************************************************)
(* The generator instance and its operations.                              *)
(***************************************************************************)
\* WeatherV1: the weather draft without reseed (state update from result[:32]);
\* MultiV1: the three-source draft without reseed (same GenerateBytes);
\* HybridV2: the hybrid draft without reseed (update from result[:min(32, len)]),
\*           which is also generateWithState of the function-style draft;
\* WeatherV3, HybridV3, MultiV3: the drafts with reseed and per-block update.
Variants == {"WeatherV1", "MultiV1", "HybridV2", "WeatherV3", "HybridV3", "MultiV3"}

\* The drafts run under concurrent callers.
ConcVariants == Variants \ {"MultiV1"}

\* Drafts with the reseed policy and the per-block state update.
Reseeding(v) == v \in {"WeatherV3", "HybridV3", "MultiV3"}

ObsOf(v) ==
    CASE v \in {"WeatherV1", "WeatherV3"} -> WeatherObs
      [] v \in {"HybridV2", "HybridV3"} -> HybridObs
      [] OTHER -> MultiObs

\* The zero value of the struct.
ZeroGen == [state |-> <<>>, counter |-> 0, bytesGenerated |-> 0, lastReseed |-> 0]

\* A faulty reseed that leaves bytesGenerated as it was.
ReseedGenKeepBytes(v, g, e, t) ==
    [g EXCEPT !.state = HmacSha256(g.state, GatherEntropy(e, t)),
              !.lastReseed = t]

\* A faulty reseed that keeps the old seed when every source failed.
ReseedGenSkipOnFailure(v, g, e, t) ==
    [g EXCEPT !.state = IF AllFailed(v, e) THEN g.state
                        ELSE HmacSha256(g.state, GatherEntropy(e, t)),
              !.lastReseed = t,
              !.bytesGenerated = 0]

\* A faulty reseed that mixes the weather entropy in without conditioning it
\* with the system key.
ReseedGenUnkeyed(v, g, e, t) ==
    LET newEntropy ==
            CASE v = "WeatherV3" -> WeatherEntropy(e, t)
              [] v = "HybridV3" -> HybridWeatherEntropy(e)
              [] OTHER -> GatherEntropy(e, t)
    IN  [g EXCEPT !.state = HmacSha256(g.state, newEntropy),
                  !.lastReseed = t,
                  !.bytesGenerated = 0]

\* A faulty reseed that starts the block counter again from zero.
ReseedGenZeroesCounter(v, g, e, t) ==
    LET newEntropy ==
            CASE v = "WeatherV3" -> WeatherEntropy(e, t)
              [] v = "HybridV3" ->
                    HmacSha256(IF e.sys = "ok" THEN SystemBytes ELSE TxtFatalSystemKey,
                               HybridWeatherEntropy(e))
              [] OTHER -> GatherEntropy(e, t)
    IN  [g EXCEPT !.state = HmacSha256(g.state, newEntropy),
                  !.counter = 0,
                  !.lastReseed = t,
                  !.bytesGenerated = 0]

\* reseed() of the reseeding drafts: mix fresh entropy into the state, keyed
\* by the old state; stamp lastReseed; clear bytesGenerated.
ReseedGen(v, g, e, t) ==
    LET newEntropy ==
            CASE v = "WeatherV3" -> WeatherEntropy(e, t)
              [] v = "HybridV3" ->
                    HmacSha256(IF e.sys = "ok" THEN SystemBytes ELSE TxtFatalSystemKey,
                               HybridWeatherEntropy(e))
              [] OTHER -> GatherEntropy(e, t)
    IN  [g EXCEPT !.state = HmacSha256(g.state, newEntropy),
                  !.lastReseed = t,
                  !.bytesGenerated = 0]

\* The constructors.
NewGen(v, e, t) ==
    CASE v = "WeatherV1" -> [ZeroGen EXCEPT !.state = WeatherEntropy(e, t)]
      [] v = "MultiV1" -> [ZeroGen EXCEPT !.state = GatherEntropySeq(e, t)]
      [] v = "HybridV2" ->
            [ZeroGen EXCEPT !.state =
                Sha256(HybridWeatherEntropy(e)
                       \o (IF e.sys = "ok" THEN SystemBytes ELSE TxtFallbackSystem))]
      [] OTHER -> ReseedGen(v, ZeroGen, e, t)

\* A faulty reseed condition that ignores the byte budget.
NeedsReseedTimeOnly(g, t) == t - g.lastReseed > RESEED_INTERVAL

\* A faulty reseed condition that needs both triggers at once.
NeedsReseedBoth(g, t) ==
    (t - g.lastReseed > RESEED_INTERVAL) /\ (g.bytesGenerated > RESEED_BYTE_INTERVAL)

\* The reseed condition at the head of GenerateBytes.
NeedsReseed(g, t) ==
    (t - g.lastReseed > RESEED_INTERVAL) \/ (g.bytesGenerated > RESEED_BYTE_INTERVAL)

\* A faulty block that leaves the counter as it was.
BlockStepKeepsCounter(v, g, n, result, generated) ==
    LET block == HmacSha256(g.state, BE8(g.counter))
        toCopy == Min(Len(block), n - generated)
    IN  [g |-> [g EXCEPT !.state = IF Reseeding(v) THEN HmacSha256(g.state, block)
                                   ELSE g.state],
         result |-> Copy(result, generated, Prefix(block, toCopy)),
         generated |-> generated + toCopy]

\* A faulty block that also depends on the wall clock.
BlockStepClocked(v, g, n, result, generated) ==
    LET block == HmacSha256(g.state, BE8(g.counter + now))
        toCopy == Min(Len(block), n - generated)
    IN  [g |-> [g EXCEPT !.counter = g.counter + 1,
                         !.state = IF Reseeding(v) THEN HmacSha256(g.state, block)
                                   ELSE g.state],
         result |-> Copy(result, generated, Prefix(block, toCopy)),
         generated |-> generated + toCopy]

\* One iteration of the generation loop.
BlockStep(v, g, n, result, generated) ==
    LET block == HmacSha256(g.state, BE8(g.counter))
        toCopy == Min(Len(block), n - generated)
    IN  [g |-> [g EXCEPT !.counter = g.counter + 1,
                         !.state = IF Reseeding(v) THEN HmacSha256(g.state, block)
                                   ELSE g.state],
         result |-> Copy(result, generated, Prefix(block, toCopy)),
         generated |-> generated + toCopy]

\* The post-generation state update of the drafts without reseed.  The
\* first draft slices result[:32] and panics when the result is shorter.
UpdatePanics(v, result) ==
    v \in {"WeatherV1", "MultiV1"} /\ Len(result) < UpdateSlice

\* A faulty update that leaves the seed as it was.
UpdateGenKeepsSeed(v, g, result) == g

UpdateGen(v, g, result) ==
    [g EXCEPT !.state =
        HmacSha256(g.state, TxtUpdate \o Prefix(result, Min(UpdateSlice, Len(result))))]

\* A faulty accounting that counts whole blocks instead of the bytes asked for.
AccountGenWholeBlocks(g, n) ==
    [g EXCEPT !.bytesGenerated =
        g.bytesGenerated + ((n + BlockSize - 1) \div BlockSize) * BlockSize]

\* bytesGenerated += numBytes
AccountGen(g, n) == [g EXCEPT !.bytesGenerated = g.bytesGenerated + n]

\* The generation loop run to its end.
RECURSIVE GenLoop(_, _, _, _, _)
GenLoop(v, g, n, result, generated) ==
    IF generated < n
    THEN LET s == BlockStep(v, g, n, result, generated)
         IN  GenLoop(v, s.g, n, s.result, s.generated)
    ELSE [g |-> g, result |-> result]

\* A faulty call of the reseeding drafts that, like the drafts without
\* reseed, also updates the seed from the output when the loop is over.
GenerateBytesCallUpdating(v, g, n, tCheck, tReseed, e) ==
    LET g1 == IF Reseeding(v) /\ NeedsReseed(g, tCheck)
              THEN ReseedGen(v, g, e, tReseed) ELSE g
        lp == GenLoop(v, g1, n, Zeros(n), 0)
        rs == Reseeding(v) /\ NeedsReseed(g, tCheck)
    IN  IF Reseeding(v)
        THEN [g |-> UpdateGen(v, AccountGen(lp.g, n), lp.result),
              bytes |-> lp.result, panicked |-> FALSE, reseeded |-> rs]
        ELSE IF UpdatePanics(v, lp.result)
        THEN [g |-> lp.g, bytes |-> <<>>, panicked |-> TRUE, reseeded |-> rs]
        ELSE [g |-> UpdateGen(v, lp.g, lp.result), bytes |-> lp.result,
              panicked |-> FALSE, reseeded |-> rs]

\* One whole GenerateBytes(n) call run alone on instance g: the clock reads
\* tCheck at the reseed check and tReseed inside reseed, which observes e.
GenerateBytesCall(v, g, n, tCheck, tReseed, e) ==
    LET g1 == IF Reseeding(v) /\ NeedsReseed(g, tCheck)
              THEN ReseedGen(v, g, e, tReseed) ELSE g
        lp == GenLoop(v, g1, n, Zeros(n), 0)
        rs == Reseeding(v) /\ NeedsReseed(g, tCheck)
    IN  IF Reseeding(v)
        THEN [g |-> AccountGen(lp.g, n), bytes |-> lp.result, panicked |-> FALSE,
              reseeded |-> rs]
        ELSE IF UpdatePanics(v, lp.result)
        THEN [g |-> lp.g, bytes |-> <<>>, panicked |-> TRUE, reseeded |-> rs]
        ELSE [g |-> UpdateGen(v, lp.g, lp.result), bytes |-> lp.result,
              panicked |-> FALSE, reseeded |-> rs]

(***************************************************************************)
(* Callers of one shared instance.                                         *)
(***************************************************************************)
Threads == 1..NumThreads

Sizes == {n \in 0..MaxBytes : n % BlockSize \in {0, 1}}

StartTime == {1000}

CeilDiv(a, b) == (a + b - 1) \div b

\* An instance that has served one GenerateBytes(b) call since construction.
AgedGen(b, t) ==
    [state |-> Sha256(Dec(b)), counter |-> CeilDiv(b, BlockSize),
     bytesGenerated |-> b, lastReseed |-> t]

AgedBytes ==
    {RESEED_BYTE_INTERVAL - 1, RESEED_BYTE_INTERVAL, RESEED_BYTE_INTERVAL + 1}

\* The observations a concurrent run draws from: every source answers, or
\* every source fails.
CoarseObs(v) ==
    {e \in ObsOf(v) : AllFailed(v, e) \/ (e.w = "ok" /\ e.m = "ok" /\ e.sys = "ok"
                                          /\ (v = "MultiV3" => e.lat # <<>>))}

\* The parts of the model that take no part in a run.
TwinIdle == twin = <<>> /\ script = <<>>

GatherIdle ==
    /\ gmode = "jitter" /\ gpc = "idle" /\ task = <<>> /\ data = <<>>
    /\ probe = <<>> /\ latencies = <<>> /\ results = <<>> /\ entropy = <<>>
    /\ gwg = 0 /\ nwg = 0

OrchIdle ==
    /\ trial = <<>> /\ semaphore = 0 /\ resultsChannel = <<>> /\ chClosed = FALSE
    /\ wg = 0 /\ tracker = 0 /\ mainpc = "idle" /\ allResults = <<>>
    /\ settings = <<>> /\ genMutex = <<>> /\ stats = <<>>

AnalyzerIdle == input = <<>> /\ output = <<>>

BesideGenIdle == TwinIdle /\ GatherIdle /\ OrchIdle

IdleThr ==
    [pc |-> "idle", n |-> 0, result |-> <<>>, generated |-> 0, blocks |-> 0,
     panicked |-> FALSE, reseeds |-> 0, obsElapsed |-> 0, obsBytes |-> 0,
     pre |-> ZeroGen, tCheck |-> 0, tReseed |-> 0, obs |-> NoObs]

InitFresh(V) ==
    /\ BesideGenIdle /\ AnalyzerIdle
    /\ variant \in V
    /\ ctorObs = NoObs
    /\ now \in StartTime
    /\ mutex = 0
    /\ thr = [t \in Threads |-> IdleThr]
    /\ hist = <<>>
    /\ ctor = "new"
    /\ gen = ZeroGen
    /\ gen0 = gen

InitAged ==
    /\ BesideGenIdle /\ AnalyzerIdle
    /\ variant \in {v \in Variants : Reseeding(v)}
    /\ ctorObs = NoObs
    /\ now \in StartTime
    /\ mutex = 0
    /\ thr = [t \in Threads |-> IdleThr]
    /\ hist = <<>>
    /\ ctor = "done"
    /\ \E b \in AgedBytes : gen = AgedGen(b, now)
    /\ gen0 = gen

\* NewXxxCSPRNG: the struct is allocated; the seeding pass comes next.
CtorBegin ==
    /\ ctor = "new"
    /\ ctor' = "seeding"
    /\ UNCHANGED <<variant, gen, mutex, thr, now, hist, gen0, ctorObs, besideGen, analyzerVars>>

\* The constructor's seeding pass (reseed() in the reseeding drafts), run
\* without taking the mutex; the instance is returned afterwards.
CtorSeed(O) ==
    /\ ctor = "seeding"
    /\ \E e \in O : gen' = NewGen(variant, e, now) /\ ctorObs' = e
    /\ gen0' = gen'
    /\ ctor' = "done"
    /\ UNCHANGED <<variant, mutex, thr, now, hist, besideGen, analyzerVars>>

\* Time passes.  The clock is read only by the constructor's seeding pass,
\* by the reseed check and inside reseed, so it is advanced right before one
\* of these reads.
ClockRead ==
    \/ ctor = "seeding"
    \/ \E t \in Threads : thr[t].pc \in {"check", "reseed"}

Tick(D) ==
    /\ ClockRead
    /\ \E d \in D :
          /\ \A s \in StartTime : now + d <= s + MaxTicks * (RESEED_INTERVAL + 1)
          /\ now' = now + d
    /\ UNCHANGED <<variant, gen, ctor, mutex, thr, hist, gen0, ctorObs, besideGen, analyzerVars>>

\* The request sizes of concurrent callers: nothing, and several blocks.
ConcSizes == {0, MaxBytes}

\* A caller invokes GenerateBytes(n) on the published instance.
Call(t, N) ==
    /\ ctor = "done"
    /\ thr[t].pc = "idle"
    /\ \E n \in N : thr' = [thr EXCEPT ![t].pc = "lock", ![t].n = n]
    /\ UNCHANGED <<variant, gen, ctor, mutex, now, hist, gen0, ctorObs, besideGen, analyzerVars>>

\* A faulty mutex that is always free.
LockFreeAlways(t) == TRUE

\* mutex.Lock(): blocks while another caller holds the mutex.
LockFree(t) == mutex = 0

\* A faulty Lock that takes the mutex from its holder.
LockNoWait(t) ==
    /\ thr[t].pc = "lock"
    /\ mutex' = t
    /\ thr' = IF Reseeding(variant)
              THEN [thr EXCEPT ![t].pc = "check"]
              ELSE [thr EXCEPT ![t].pc = "loop", ![t].result = Zeros(thr[t].n)]
    /\ UNCHANGED <<variant, gen, ctor, now, hist, gen0, ctorObs, besideGen, analyzerVars>>

Lock(t) ==
    /\ thr[t].pc = "lock"
    /\ LockFree(t)
    /\ mutex' = t
    /\ thr' = IF Reseeding(variant)
              THEN [thr EXCEPT ![t].pc = "check"]
              ELSE [thr EXCEPT ![t].pc = "loop", ![t].result = Zeros(thr[t].n)]
    /\ UNCHANGED <<variant, gen, ctor, now, hist, gen0, ctorObs, besideGen, analyzerVars>>

\* A faulty check that gives up the mutex before reseeding.
CheckReleasing(t) ==
    /\ thr[t].pc = "check"
    /\ thr' = [thr EXCEPT
                 ![t].obsElapsed = now - gen.lastReseed,
                 ![t].obsBytes = gen.bytesGenerated,
                 ![t].tCheck = now,
                 ![t].pc = IF NeedsReseed(gen, now) THEN "reseed" ELSE "loop",
                 ![t].result = IF NeedsReseed(gen, now) THEN <<>> ELSE Zeros(thr[t].n)]
    /\ mutex' = IF NeedsReseed(gen, now) THEN 0 ELSE mutex
    /\ UNCHANGED <<variant, gen, ctor, now, hist, gen0, ctorObs, besideGen, analyzerVars>>

\* The reseed check at the head of GenerateBytes of the reseeding drafts.
Check(t) ==
    /\ thr[t].pc = "check"
    /\ thr' = [thr EXCEPT
                 ![t].obsElapsed = now - gen.lastReseed,
                 ![t].obsBytes = gen.bytesGenerated,
                 ![t].tCheck = now,
                 ![t].pc = IF NeedsReseed(gen, now) THEN "reseed" ELSE "loop",
                 ![t].result = IF NeedsReseed(gen, now) THEN <<>> ELSE Zeros(thr[t].n)]
    /\ UNCHANGED <<variant, gen, ctor, mutex, now, hist, gen0, ctorObs, besideGen, analyzerVars>>

\* reseed() called from GenerateBytes.
Reseed(t, O) ==
    /\ thr[t].pc = "reseed"
    /\ \E e \in O :
          /\ gen' = ReseedGen(variant, gen, e, now)
          /\ thr' = [thr EXCEPT ![t].pc = "loop",
                                ![t].result = Zeros(thr[t].n),
                                ![t].reseeds = thr[t].reseeds + 1,
                                ![t].pre = gen,
                                ![t].tReseed = now,
                                ![t].obs = e]
    /\ UNCHANGED <<variant, ctor, mutex, now, hist, gen0, ctorObs, besideGen, analyzerVars>>

\* One iteration of "for generated < numBytes".
Block(t) ==
    /\ thr[t].pc = "loop"
    /\ thr[t].generated < thr[t].n
    /\ LET s == BlockStep(variant, gen, thr[t].n, thr[t].result, thr[t].generated)
       IN  /\ gen' = s.g
           /\ thr' = [thr EXCEPT ![t].result = s.result,
                                 ![t].generated = s.generated,
                                 ![t].blocks = thr[t].blocks + 1]
    /\ UNCHANGED <<variant, ctor, mutex, now, hist, gen0, ctorObs, besideGen, analyzerVars>>

\* Loop exit of the drafts without reseed: the state update from the output,
\* or the panic of result[:32] on a short result.
Update(t) ==
    /\ thr[t].pc = "loop"
    /\ thr[t].generated >= thr[t].n
    /\ ~Reseeding(variant)
    /\ IF UpdatePanics(variant, thr[t].result)
       THEN /\ thr' = [thr EXCEPT ![t].pc = "unlock", ![t].panicked = TRUE]
            /\ gen' = gen
       ELSE /\ thr' = [thr EXCEPT ![t].pc = "unlock"]
            /\ gen' = UpdateGen(variant, gen, thr[t].result)
    /\ UNCHANGED <<variant, ctor, mutex, now, hist, gen0, ctorObs, besideGen, analyzerVars>>

\* Loop exit of the reseeding drafts: bytesGenerated += numBytes.
Account(t) ==
    /\ thr[t].pc = "loop"
    /\ thr[t].generated >= thr[t].n
    /\ Reseeding(variant)
    /\ gen' = AccountGen(gen, thr[t].n)
    /\ thr' = [thr EXCEPT ![t].pc = "unlock"]
    /\ UNCHANGED <<variant, ctor, mutex, now, hist, gen0, ctorObs, besideGen, analyzerVars>>

\* What a finished call hands back: (result, nil), or the panic.
Returned(c) ==
    [t |-> c.t, n |-> c.n, panicked |-> c.panicked,
     bytes |-> IF c.panicked THEN <<>> ELSE c.result,
     reseeds |-> c.reseeds, tCheck |-> c.tCheck, tReseed |-> c.tReseed,
     obs |-> c.obs]

\* The deferred mutex.Unlock(), on return or while the panic unwinds.
Unlock(t) ==
    /\ thr[t].pc = "unlock"
    /\ mutex' = 0
    /\ thr' = [thr EXCEPT ![t].pc = "done"]
    /\ hist' = Append(hist, Returned([thr[t] EXCEPT !.pc = t] @@ [t |-> t]))
    /\ UNCHANGED <<variant, gen, ctor, now, gen0, ctorObs, besideGen, analyzerVars>>

(***************************************************************************)
(* SpecGen: several callers, one call each, on one shared instance.        *)
(***************************************************************************)
NextGen ==
    \/ CtorBegin
    \/ CtorSeed(CoarseObs(variant))
    \/ Tick({RESEED_INTERVAL + 1})
    \/ \E t \in Threads : Call(t, ConcSizes)
    \/ \E t \in Threads : Lock(t)
    \/ \E t \in Threads : Check(t)
    \/ \E t \in Threads : Reseed(t, CoarseObs(variant))
    \/ \E t \in Threads : Block(t)
    \/ \E t \in Threads : Update(t)
    \/ \E t \in Threads : Account(t)
    \/ \E t \in Threads : Unlock(t)

SpecGen == InitFresh(ConcVariants) /\ [][NextGen]_vars

(***************************************************************************)
(* SpecSeq: one caller making one call on a fresh or an aged instance, with *)
(* the full set of entropy observations.                                   *)
(***************************************************************************)
NextSeq ==
    \/ CtorBegin
    \/ CtorSeed(ObsOf(variant))
    \/ Tick({RESEED_INTERVAL, RESEED_INTERVAL + 1})
    \/ Call(1, Sizes)
    \/ Lock(1)
    \/ Check(1)
    \/ Reseed(1, ObsOf(variant))
    \/ Block(1)
    \/ Update(1)
    \/ Account(1)
    \/ Unlock(1)

SpecSeq == (InitFresh(Variants) \/ InitAged) /\ [][NextSeq]_vars

(***************************************************************************)
(* Claims about one generator instance.                                    *)
(***************************************************************************)
\* Positions from which the next step of the caller reads or writes the
\* seed, the counter or the reseed bookkeeping.
AccessPcs == {"check", "reseed", "loop"}

\* Positions after the reseed check (and the reseed, if any) of a call.
PastReseed == {"loop", "unlock", "done"}

\* The caller has just come out of reseed(): no block has been produced yet.
JustReseeded(t) ==
    thr[t].pc = "loop" /\ thr[t].reseeds = 1 /\ thr[t].blocks = 0

\* C2 (as claimed): every finished GenerateBytes(n) call, of every draft and
\* for every n >= 0, returned normally with exactly n bytes.
C2_ExactlyNBytes ==
    \A i \in DOMAIN hist : ~hist[i].panicked /\ Len(hist[i].bytes) = hist[i].n

\* C3 (as claimed): every access to seed and counter, by GenerateBytes and
\* by reseed (the constructor's seeding pass included), happens with the
\* instance's mutex held by the accessor.
C3_EveryAccessUnderMutex ==
    /\ ctor = "seeding" => mutex # 0
    /\ \A t \in Threads : thr[t].pc \in AccessPcs => mutex = t

\* C3 (amended): every access made by GenerateBytes, and by a reseed called
\* from it, happens with the mutex held by that caller; the constructor's
\* seeding pass runs without the mutex, but before any caller has the
\* instance; so at most one thread is ever inside the accessing section.
C3_AccessUnderMutexOncePublished ==
    /\ \A t \in Threads : thr[t].pc \in AccessPcs => mutex = t
    /\ ctor # "done" => \A t \in Threads : thr[t].pc = "idle"
    /\ Cardinality({t \in Threads : thr[t].pc \in AccessPcs}) <= 1

C3_Witness ==
    \E t, u \in Threads :
        /\ thr[t].pc = "loop" /\ thr[t].blocks = 1 /\ thr[t].generated < thr[t].n
        /\ thr[u].pc = "lock"

\* The calls of the callers run one after another in the given order,
\* starting from the published instance, each with what it observed.
RECURSIVE SerialRun(_, _, _, _)
SerialRun(order, k, g, outs) ==
    IF k > Len(order) THEN [g |-> g, outs |-> outs]
    ELSE LET c == thr[order[k]]
             r == GenerateBytesCall(variant, g, c.n, c.tCheck, c.tReseed, c.obs)
         IN  SerialRun(order, k + 1, r.g,
                       Append(outs, [bytes |-> r.bytes, panicked |-> r.panicked]))

AllDone == ctor = "done" /\ \A t \in Threads : thr[t].pc = "done"

\* The order in which the callers took the mutex.
LockOrder == [k \in 1..NumThreads |-> hist[k].t]

\* C4: concurrent GenerateBytes calls on one instance are serializable: what
\* they returned and the final seed, counter and bookkeeping are those of
\* running the same calls one after another in some order (namely the order
\* in which they took the mutex).
C4_Serializable ==
    AllDone =>
        LET r == SerialRun(LockOrder, 1, gen0, <<>>)
        IN  /\ r.g = gen
            /\ \A k \in 1..NumThreads :
                  /\ r.outs[k].panicked = thr[LockOrder[k]].panicked
                  /\ ~thr[LockOrder[k]].panicked
                     => r.outs[k].bytes = thr[LockOrder[k]].result

C4_Witness ==
    /\ AllDone
    /\ variant = "HybridV3"
    /\ \A t \in Threads : thr[t].n > BlockSize
    /\ \E t \in Threads : thr[t].reseeds = 1
    /\ hist[1].t = NumThreads

\* C5 (as claimed): once bytesGenerated >= RESEED_BYTE_INTERVAL, the next
\* call reseeds exactly once before any block, and bytesGenerated is 0
\* right after the reseed.
C5_ReseedAtBudget ==
    \A t \in Threads :
        (Reseeding(variant) /\ thr[t].pc \in PastReseed
            /\ thr[t].obsBytes >= RESEED_BYTE_INTERVAL)
        => /\ thr[t].reseeds = 1
           /\ JustReseeded(t) => gen.bytesGenerated = 0

\* C5 (amended): once bytesGenerated exceeds RESEED_BYTE_INTERVAL (strictly),
\* the next call reseeds exactly once before any block, and bytesGenerated
\* is 0 right after the reseed; at exactly the budget the byte trigger does
\* not fire.
C5_ReseedAboveBudget ==
    \A t \in Threads :
        /\ (Reseeding(variant) /\ thr[t].pc \in PastReseed
               /\ thr[t].obsBytes > RESEED_BYTE_INTERVAL)
           => /\ thr[t].reseeds = 1
              /\ JustReseeded(t) => gen.bytesGenerated = 0
        /\ (Reseeding(variant) /\ thr[t].pc \in PastReseed
               /\ thr[t].obsBytes = RESEED_BYTE_INTERVAL
               /\ thr[t].obsElapsed <= RESEED_INTERVAL)
           => thr[t].reseeds = 0
        /\ thr[t].pc = "reseed" => thr[t].blocks = 0 /\ thr[t].generated = 0

C5_Witness ==
    \E t \in Threads :
        /\ thr[t].pc = "done" /\ thr[t].n > BlockSize
        /\ thr[t].obsBytes > RESEED_BYTE_INTERVAL
        /\ thr[t].obsElapsed <= RESEED_INTERVAL
        /\ thr[t].reseeds = 1

\* A step that is a whole reseed(): the constructor's seeding pass of a
\* reseeding draft, or the reseed called from GenerateBytes.
ReseedStep ==
    \/ Reseeding(variant) /\ ctor = "seeding" /\ ctor' = "done"
    \/ \E t \in Threads : thr[t].pc = "reseed" /\ thr'[t].pc = "loop"

\* C6 (as claimed): right after any reseed, counter = 0 and bytesGenerated = 0.
C6_ReseedZeroesCounter ==
    [][ReseedStep => gen'.counter = 0 /\ gen'.bytesGenerated = 0]_vars

\* C6 (amended): reseed clears bytesGenerated, stamps lastReseed and leaves
\* the block counter as it was (it is 0 after the constructor's reseed only
\* because the struct starts zeroed).
C6_ReseedKeepsCounter ==
    [][ReseedStep => /\ gen'.bytesGenerated = 0
                     /\ gen'.counter = gen.counter
                     /\ gen'.lastReseed = now]_vars

C6_Witness ==
    \E t \in Threads :
        JustReseeded(t) /\ gen.counter > 0 /\ gen.bytesGenerated = 0
                        /\ thr[t].pre.bytesGenerated > 0

\* C7: each GenerateBytes call of a reseeding draft checks both triggers
\* before any block; it reseeds exactly once if the time since lastReseed
\* exceeds RESEED_INTERVAL or bytesGenerated exceeds RESEED_BYTE_INTERVAL
\* (either alone), and not at all when neither holds.
C7_ReseedIffTrigger ==
    \A t \in Threads :
        /\ (Reseeding(variant) /\ thr[t].pc \in PastReseed)
           => thr[t].reseeds =
                 (IF \/ thr[t].obsElapsed > RESEED_INTERVAL
                     \/ thr[t].obsBytes > RESEED_BYTE_INTERVAL
                  THEN 1 ELSE 0)
        /\ thr[t].pc \in {"check", "reseed"}
           => thr[t].blocks = 0 /\ thr[t].generated = 0 /\ thr[t].reseeds = 0

C7_Witness ==
    \E t \in Threads :
        /\ thr[t].pc = "done" /\ thr[t].reseeds = 1
        /\ thr[t].obsElapsed > RESEED_INTERVAL
        /\ thr[t].obsBytes <= RESEED_BYTE_INTERVAL
        /\ thr[t].blocks = 2

\* C9: when every entropy source fails, reseed still completes, the seed it
\* leaves is a 32-byte value different from the previous seed (for the
\* three-source draft: derived from the three fallback texts), and the
\* enclosing GenerateBytes returns its n bytes without error.
C9_ReseedSurvivesTotalFailure ==
    /\ \A t \in Threads :
          (thr[t].reseeds = 1 /\ AllFailed(variant, thr[t].obs))
          => /\ JustReseeded(t)
                => /\ gen.state # thr[t].pre.state
                   /\ Len(gen.state) = BlockSize
                   /\ variant = "MultiV3"
                      => gen.state =
                            HmacSha256(thr[t].pre.state,
                                Sha256(TxtWeatherError \o Bar \o TxtMarketError \o Bar
                                       \o TxtNetworkErrorAll \o Bar \o Dec(thr[t].tReseed)))
             /\ thr[t].pc = "done"
                => ~thr[t].panicked /\ Len(thr[t].result) = thr[t].n
    /\ (Reseeding(variant) /\ ctor = "done" /\ AllFailed(variant, ctorObs))
       => gen0.state # ZeroGen.state /\ Len(gen0.state) = BlockSize

C9_Witness ==
    \E t \in Threads :
        /\ variant = "MultiV3" /\ thr[t].pc = "done" /\ thr[t].n > BlockSize
        /\ thr[t].reseeds = 1 /\ AllFailed(variant, thr[t].obs)
        /\ AllFailed(variant, ctorObs)

\* The caller is in a GenerateBytes call that has entered reseed and has not
\* yet released the mutex.
InReseedingCall(t) ==
    \/ thr[t].pc = "reseed"
    \/ thr[t].reseeds = 1 /\ thr[t].pc \in {"loop", "unlock"}

\* The first block a call produces after its reseed, as the code computes it
\* from the reseeded state.
FirstBlockAfterReseed(t) ==
    LET g == ReseedGen(variant, thr[t].pre, thr[t].obs, thr[t].tReseed)
    IN  Prefix(HmacSha256(g.state, BE8(g.counter)), Min(BlockSize, thr[t].n))

\* C11: while one caller is reseeding inside GenerateBytes, every other
\* caller of the instance is outside the locked section (not yet in, waiting
\* for the mutex, or finished) until the reseeding call has released the
\* mutex; the first block that call produces is keyed by the reseeded state,
\* never by the state from before the reseed.
C11_OthersBlockedDuringReseed ==
    \A t \in Threads :
        /\ InReseedingCall(t)
           => \A u \in Threads \ {t} : thr[u].pc \in {"idle", "lock", "done"}
        /\ (InReseedingCall(t) /\ thr[t].blocks >= 1)
           => Prefix(thr[t].result, Min(BlockSize, thr[t].n)) = FirstBlockAfterReseed(t)

C11_Witness ==
    \E t, u \in Threads :
        /\ thr[t].pc = "reseed" /\ variant = "HybridV3"
        /\ thr[u].pc = "lock" /\ thr[u].n > BlockSize

(***************************************************************************)
(* SpecReplay: two instances of one draft start from the same seed and     *)
(* counter and are given the same script of GenerateBytes calls, each at   *)
(* its own pace and its own wall-clock times.                              *)
(***************************************************************************)
MaxCalls == 2

Twins == 1..2

GenIdle ==
    /\ gen = ZeroGen /\ gen0 = ZeroGen /\ ctor = "done" /\ mutex = 0
    /\ thr = <<>> /\ hist = <<>> /\ ctorObs = NoObs

\* The common start: freshly constructed, or having served one call.
TwinStarts(v, t) ==
    {NewGen(v, e, t) : e \in CoarseObs(v)}
        \cup (IF Reseeding(v) THEN {AgedGen(RESEED_BYTE_INTERVAL - 1, t)} ELSE {})

InitReplay ==
    /\ GenIdle /\ GatherIdle /\ OrchIdle /\ AnalyzerIdle
    /\ variant \in Variants
    /\ now \in StartTime
    /\ script = <<>>
    /\ \E g \in TwinStarts(variant, now) :
          twin = [i \in Twins |-> [g |-> g, outs |-> <<>>, reseeded |-> FALSE]]

\* What a call leaves of an instance.
Served(w, r) ==
    [g |-> r.g,
     outs |-> Append(w.outs, [bytes |-> r.bytes, panicked |-> r.panicked]),
     reseeded |-> w.reseeded \/ r.reseeded]

\* The first instance serves a new call, which extends the script.  (A run
\* is followed up to the first reseed.)
Record ==
    /\ Len(script) < MaxCalls
    /\ ~twin[1].reseeded
    /\ \E n \in Sizes, e \in CoarseObs(variant) :
          /\ script' = Append(script, n)
          /\ twin' = [twin EXCEPT ![1] =
                Served(twin[1], GenerateBytesCall(variant, twin[1].g, n, now, now, e))]
    /\ UNCHANGED <<variant, gen, ctor, mutex, thr, now, hist, gen0, ctorObs>>
    /\ UNCHANGED <<gatherVars, orchVars, analyzerVars>>

\* The second instance serves the next call of the script.
Replay ==
    /\ Len(twin[2].outs) < Len(script)
    /\ ~twin[2].reseeded
    /\ \E e \in CoarseObs(variant) :
          twin' = [twin EXCEPT ![2] =
                Served(twin[2],
                       GenerateBytesCall(variant, twin[2].g,
                                         script[Len(twin[2].outs) + 1], now, now, e))]
    /\ UNCHANGED <<variant, gen, ctor, mutex, thr, now, hist, gen0, ctorObs>>
    /\ UNCHANGED <<script, gatherVars, orchVars, analyzerVars>>

\* Time passes between calls.
ReplayTick ==
    /\ \E d \in {RESEED_INTERVAL, RESEED_INTERVAL + 1} :
          /\ \A s \in StartTime : now + d <= s + MaxTicks * (RESEED_INTERVAL + 1)
          /\ now' = now + d
    /\ UNCHANGED <<variant, gen, ctor, mutex, thr, hist, gen0, ctorObs>>
    /\ UNCHANGED <<twinVars, gatherVars, orchVars, analyzerVars>>

NextReplay ==
    \/ Record
    \/ Replay
    \/ ReplayTick

SpecReplay == InitReplay /\ [][NextReplay]_vars

\* The calls both instances have served, with no reseed on either side.
Replayed(k) ==
    /\ Len(twin[1].outs) = k /\ Len(twin[2].outs) = k
    /\ ~twin[1].reseeded /\ ~twin[2].reseeded

\* C8: two instances started from the same seed and counter and given the
\* same sequence of GenerateBytes(n_i) calls, with no reseed triggered,
\* return identical outputs call by call and end in the same seed and counter.
C8_ReplayLaw ==
    \A k \in 0..MaxCalls :
        Replayed(k) => /\ twin[1].outs = twin[2].outs
                       /\ twin[1].g.state = twin[2].g.state
                       /\ twin[1].g.counter = twin[2].g.counter

C8_Witness ==
    /\ Replayed(MaxCalls)
    /\ variant = "WeatherV3"
    /\ script[1] > BlockSize /\ script[2] = 1
    /\ twin[1].g.lastReseed < now
    /\ twin[1].outs[1].bytes # twin[1].outs[2].bytes

(***************************************************************************)
(* SpecGather: one entropy-gathering pass of the three-source generator,   *)
(* goroutine by goroutine.  In mode "jitter" it is gatherEntropy with the  *)
(* per-endpoint probes of getNetworkJitter; in mode "chan" it is           *)
(* initCustomCSPRNG, whose goroutines send into a buffered channel.        *)
(***************************************************************************)
NumEndpoints == 4
ResultsCap == 3

Sources == {"weather", "market", "network"}
Endpoints == 1..NumEndpoints

\* The measured duration of the probe of endpoint p.
Latency(p) == 4 + p

InitGather ==
    /\ GenIdle /\ TwinIdle /\ OrchIdle /\ AnalyzerIdle
    /\ variant = "MultiV3"
    /\ now \in StartTime
    /\ gmode \in {"jitter", "chan"}
    /\ gpc = "start"
    /\ task = [s \in Sources |-> [pc |-> "idle", outcome |-> "none"]]
    /\ data = [s \in Sources |-> <<>>]
    /\ probe = [p \in Endpoints |-> [pc |-> "idle", outcome |-> "none"]]
    /\ latencies = <<>>
    /\ results = <<>>
    /\ gwg = 0 /\ nwg = 0
    /\ entropy = <<>>

\* wg.Add(3) and the three go statements.
Spawn ==
    /\ gpc = "start"
    /\ gwg' = gwg + 3
    /\ task' = [s \in Sources |-> [task[s] EXCEPT !.pc = "run"]]
    /\ gpc' = "wait"
    /\ UNCHANGED <<gmode, data, probe, latencies, results, nwg, entropy>>
    /\ UNCHANGED <<genVars, twinVars, orchVars, analyzerVars>>

\* What a fetch with the given outcome contributes.
Contribution(s, o) ==
    IF s = "weather" THEN GetWeather([NoObs EXCEPT !.w = o])
    ELSE GetMarket([NoObs EXCEPT !.m = o])

\* get() of initCustomCSPRNG: the error text, or whatever was read of the body.
ChanGet(s, o) ==
    CASE o = "err" -> TxtError
      [] o = "readerr" -> <<>>
      [] OTHER -> IF s = "weather" THEN WeatherBody ELSE MarketBody

\* getNetworkTiming() of initCustomCSPRNG (http.Get without a timeout).
ChanTiming(o) == IF o = "err" THEN TxtNetworkError ELSE Dec(Latency(1))

\* weatherData = c.getWeather() / marketData = c.getMarket()
Fetch(s) ==
    /\ gmode = "jitter"
    /\ s # "network"
    /\ task[s].pc = "run"
    /\ \E o \in FetchOutcomes :
          /\ task' = [task EXCEPT ![s] = [pc |-> "stored", outcome |-> o]]
          /\ data' = [data EXCEPT ![s] = Contribution(s, o)]
    /\ UNCHANGED <<gmode, gpc, probe, latencies, results, gwg, nwg, entropy>>
    /\ UNCHANGED <<genVars, twinVars, orchVars, analyzerVars>>

\* getNetworkJitter: wg.Add(1) and a goroutine per endpoint.
SpawnProbes ==
    /\ gmode = "jitter"
    /\ task["network"].pc = "run"
    /\ nwg' = nwg + NumEndpoints
    /\ probe' = [p \in Endpoints |-> [probe[p] EXCEPT !.pc = "run"]]
    /\ task' = [task EXCEPT !["network"].pc = "probing"]
    /\ UNCHANGED <<gmode, gpc, data, latencies, results, gwg, entropy>>
    /\ UNCHANGED <<genVars, twinVars, orchVars, analyzerVars>>

\* One probe goroutine: the request; on success the append under mu; the
\* deferred wg.Done().
Probe(p) ==
    /\ probe[p].pc = "run"
    /\ \E o \in {"ok", "err"} :
          /\ probe' = [probe EXCEPT ![p] = [pc |-> "done", outcome |-> o]]
          /\ latencies' = IF o = "ok" THEN Append(latencies, Latency(p))
                          ELSE latencies
    /\ nwg' = nwg - 1
    /\ UNCHANGED <<gmode, gpc, task, data, results, gwg, entropy>>
    /\ UNCHANGED <<genVars, twinVars, orchVars, analyzerVars>>

\* A faulty Wait that returns at once.
WaitReturnsAtOnce(counter) == TRUE

\* wg.Wait() returns when the counter is zero.
WaitReturns(counter) == counter = 0

\* getNetworkJitter after its wg.Wait(): the joined latencies are returned
\* and stored in networkData.
JoinProbes ==
    /\ task["network"].pc = "probing"
    /\ WaitReturns(nwg)
    /\ task' = [task EXCEPT !["network"] =
                   [pc |-> "stored",
                    outcome |-> IF Len(latencies) = 0 THEN "err" ELSE "ok"]]
    /\ data' = [data EXCEPT !["network"] = NetworkJitterResult(latencies)]
    /\ UNCHANGED <<gmode, gpc, probe, latencies, results, gwg, nwg, entropy>>
    /\ UNCHANGED <<genVars, twinVars, orchVars, analyzerVars>>

\* A goroutine of initCustomCSPRNG: results <- get(url) or
\* results <- getNetworkTiming().  The untimed http.Get may never return.
Send(s) ==
    /\ gmode = "chan"
    /\ task[s].pc = "run"
    /\ Len(results) < ResultsCap
    /\ \E o \in (IF s = "network" THEN {"ok", "err", "hang"} ELSE FetchOutcomes) :
          IF o = "hang"
          THEN /\ task' = [task EXCEPT ![s] = [pc |-> "hung", outcome |-> o]]
               /\ results' = results
          ELSE /\ task' = [task EXCEPT ![s] = [pc |-> "stored", outcome |-> o]]
               /\ results' = Append(results,
                                    IF s = "network" THEN ChanTiming(o)
                                    ELSE ChanGet(s, o))
    /\ UNCHANGED <<gmode, gpc, data, probe, latencies, gwg, nwg, entropy>>
    /\ UNCHANGED <<genVars, twinVars, orchVars, analyzerVars>>

\* The deferred wg.Done() of a source goroutine.
Done(s) ==
    /\ task[s].pc = "stored"
    /\ task' = [task EXCEPT ![s].pc = "done"]
    /\ gwg' = gwg - 1
    /\ UNCHANGED <<gmode, gpc, data, probe, latencies, results, nwg, entropy>>
    /\ UNCHANGED <<genVars, twinVars, orchVars, analyzerVars>>

\* wg.Wait() of the gathering function.
Join ==
    /\ gpc = "wait"
    /\ WaitReturns(gwg)
    /\ gpc' = "joined"
    /\ UNCHANGED <<gmode, task, data, probe, latencies, results, gwg, nwg, entropy>>
    /\ UNCHANGED <<genVars, twinVars, orchVars, analyzerVars>>

\* The combine step.  gatherEntropy formats the three variables;
\* initCustomCSPRNG closes and drains the channel and formats
\* entropySources[0..2], panicking on a missing element.
Combine ==
    /\ gpc = "joined"
    /\ IF gmode = "jitter"
       THEN /\ entropy' = EntropyText(data["weather"], data["market"],
                                      data["network"], now)
            /\ gpc' = "done"
            /\ results' = results
       ELSE /\ results' = <<>>
            /\ IF Len(results) >= 3
               THEN /\ entropy' = EntropyText(results[1], results[2], results[3], now)
                    /\ gpc' = "done"
               ELSE /\ entropy' = entropy
                    /\ gpc' = "panicked"
    /\ UNCHANGED <<gmode, task, data, probe, latencies, gwg, nwg>>
    /\ UNCHANGED <<genVars, twinVars, orchVars, analyzerVars>>

NextGather ==
    \/ Spawn
    \/ \E s \in Sources : Fetch(s)
    \/ SpawnProbes
    \/ \E p \in Endpoints : Probe(p)
    \/ JoinProbes
    \/ \E s \in Sources : Send(s)
    \/ \E s \in Sources : Done(s)
    \/ Join
    \/ Combine

SpecGather == InitGather /\ [][NextGather]_vars

\* The probes that answered.
Answered == {p \in Endpoints : probe[p].outcome = "ok"}

\* What a source goroutine of initCustomCSPRNG put into the channel.
ChanValue(s) ==
    IF s = "network" THEN ChanTiming(task[s].outcome) ELSE ChanGet(s, task[s].outcome)

SourceOrders ==
    {f \in [1..3 -> Sources] : \A i, j \in 1..3 : i # j => f[i] # f[j]}

\* C10: the combine step runs only after each of the three source tasks
\* (and, inside the network source, each per-endpoint probe) has delivered
\* its value or its fallback, and the combined buffer holds every source's
\* contribution.
C10_FanOutBarrier ==
    /\ gpc \in {"joined", "done", "panicked"}
       => \A s \in Sources : task[s].pc = "done"
    /\ (gmode = "jitter" /\ task["network"].pc \in {"stored", "done"})
       => /\ \A p \in Endpoints : probe[p].pc = "done"
          /\ Len(latencies) = Cardinality(Answered)
          /\ {latencies[i] : i \in DOMAIN latencies} = {Latency(p) : p \in Answered}
          /\ data["network"] = NetworkJitterResult(latencies)
    /\ (gmode = "jitter" /\ gpc = "done")
       => /\ entropy = EntropyText(Contribution("weather", task["weather"].outcome),
                                   Contribution("market", task["market"].outcome),
                                   NetworkJitterResult(latencies), now)
          /\ Sha256(entropy) =
                GatherEntropy([NoObs EXCEPT !.w = task["weather"].outcome,
                                            !.m = task["market"].outcome,
                                            !.lat = latencies], now)
    /\ gmode = "chan"
       => /\ gpc # "panicked"
          /\ gpc = "done"
             => \E f \in SourceOrders :
                   entropy = EntropyText(ChanValue(f[1]), ChanValue(f[2]),
                                         ChanValue(f[3]), now)

C10_Witness ==
    /\ gmode = "jitter" /\ gpc = "done"
    /\ task["weather"].outcome = "err" /\ task["market"].outcome = "ok"
    /\ Len(latencies) = 2 /\ latencies[1] > latencies[2]

\* The Go scheduler runs some goroutine that is able to run.
SpecGatherFair == SpecGather /\ WF_vars(NextGather)

\* C15: every entropy fetch made during construction or reseed is bounded by
\* a timeout, so no source goroutine blocks forever and the gathering always
\* terminates: every source goroutine delivers its value or its fallback
\* and the gathering function returns.
C15_GatheringTerminates ==
    <>(gpc \in {"done", "panicked"} /\ \A s \in Sources : task[s].pc = "done")

(***************************************************************************)
(* SpecOrch: the benchmark orchestrator.  main launches one goroutine per  *)
(* (generator, run); each takes a semaphore slot, runs runSingleTest (with *)
(* retries, recover, result delivery and progress accounting), releases    *)
(* the slot and signals the WaitGroup; a collector drains the results      *)
(* channel, which a closer closes once the WaitGroup is at zero.           *)
(***************************************************************************)
\* numRuns and maxConcurrency are settings of main (1000 and 10 by default); the
\* model runs them small.  maxRetries is the constant of runSingleTest.
numRuns == 1
maxConcurrency == 1
maxRetries == 2

\* The backoff unit of runSingleTest, in milliseconds.
backoffUnit == 100

\* Generators behind the Generator interface: a GenerateBytes call returns
\* data, returns an error, or panics.
Generators == <<"System CSPRNG", "Hybrid CSPRNG">>

GenOutcomes(name) ==
    IF name = "System CSPRNG" THEN {"ok", "err"} ELSE {"ok", "panic"}

totalTests == settings.numRuns * Len(settings.generators)

Trials == 1..totalTests

\* The launch loop: generators outermost, runs 1..numRuns inside.
InstanceOf(i) == ((i - 1) \div settings.numRuns) + 1
GeneratorOf(i) == settings.generators[InstanceOf(i)]
TestRunOf(i) == ((i - 1) % settings.numRuns) + 1

\* The generators that guard GenerateBytes with a mutex; SystemCSPRNG has none.
Locks(name) == name # "System CSPRNG"

\* main up to the launch loop, under the settings S.
InitRun(S) ==
    /\ GenIdle /\ TwinIdle /\ GatherIdle /\ AnalyzerIdle
    /\ variant = "HybridV2"
    /\ now \in StartTime
    /\ settings = S
    /\ genMutex = [k \in DOMAIN S.generators |-> 0]
    /\ stats = <<>>
    /\ trial = [i \in Trials |-> [pc |-> "none", attempt |-> 0, err |-> "nil",
                                  data |-> FALSE, duration |-> 0, throughput |-> 0,
                                  outs |-> <<>>, waits |-> <<>>]]
    /\ semaphore = 0
    /\ resultsChannel = <<>>
    /\ chClosed = FALSE
    /\ wg = 0
    /\ tracker = 0
    /\ mainpc = "launch"
    /\ allResults = <<>>

InitOrch ==
    InitRun([testSize |-> 1024 * 1024, generators |-> Generators,
             numRuns |-> numRuns, maxConcurrency |-> maxConcurrency])

\* main: wg.Add(1); go func(gen, testRun) {...}, in loop order.
Launch(i) ==
    /\ mainpc = "launch"
    /\ trial[i].pc = "none"
    /\ \A j \in Trials : j < i => trial[j].pc # "none"
    /\ wg' = wg + 1
    /\ trial' = [trial EXCEPT ![i].pc = "acquire"]
    /\ UNCHANGED <<semaphore, resultsChannel, chClosed, tracker, mainpc, allResults>>
    /\ UNCHANGED <<genVars, twinVars, gatherVars, settings, genMutex, stats, analyzerVars>>

\* main has left the launch loop: the collector and the closer are started.
Launched ==
    /\ mainpc = "launch"
    /\ \A i \in Trials : trial[i].pc # "none"
    /\ mainpc' = "collect"
    /\ UNCHANGED <<trial, semaphore, resultsChannel, chClosed, wg, tracker, allResults>>
    /\ UNCHANGED <<genVars, twinVars, gatherVars, settings, genMutex, stats, analyzerVars>>

\* A faulty semaphore that never fills.
SlotFreeAlways == TRUE

\* A send into the semaphore channel goes through while it has room.
SlotFree == semaphore < settings.maxConcurrency

\* semaphore <- struct{}{}
\* Where a call of performanceTest starts: GenerateBytes of a generator with a
\* mutex first waits for it, SystemCSPRNG.GenerateBytes runs at once.
CallPc(i) == IF Locks(GeneratorOf(i)) THEN "attempt" ELSE "generate"

Acquire(i) ==
    /\ trial[i].pc = "acquire"
    /\ SlotFree
    /\ semaphore' = semaphore + 1
    /\ trial' = [trial EXCEPT ![i].pc = CallPc(i)]
    /\ UNCHANGED <<resultsChannel, chClosed, wg, tracker, mainpc, allResults>>
    /\ UNCHANGED <<genVars, twinVars, gatherVars, settings, genMutex, stats, analyzerVars>>

\* float64 is modelled as a binary floating-point format over the naturals
\* with a significand of MantissaBits bits (53 in float64) and rounding to
\* nearest, ties to even: the result of an operation is the exact result
\* rounded to MantissaBits significant bits, or to a whole number if it is
\* smaller than that.
MantissaBits == 4

\* The number of bits of n.
BitLen[n \in Nat] == IF n = 0 THEN 0 ELSE 1 + BitLen[n \div 2]

\* The quotient x / n rounded to the nearest multiple of g, ties to even.
RoundQuot[x \in Nat, n \in Nat, g \in Nat] ==
    LET k == x \div (n * g)
        r == x % (n * g)
    IN  IF 2 * r > n * g \/ (2 * r = n * g /\ k % 2 = 1)
        THEN (k + 1) * g
        ELSE k * g

\* The float64 quotient x / float64(n) of a float x and a positive integer n.
Float64Div(x, n) ==
    LET over == BitLen[x \div n] - MantissaBits
    IN  RoundQuot[x, n, 2 ^ (IF over > 0 THEN over ELSE 0)]

\* The float64 sum of two floats.
Float64Add(a, b) == Float64Div(a + b, 1)

\* time.Microsecond, durations being counted in microseconds.
Microsecond == 1

\* A faulty measurement that takes the elapsed time as it is.
MeasuredDurationRaw(elapsed) == elapsed

\* performanceTest after a successful call that took elapsed microseconds:
\* the duration, floored at one microsecond, and the throughput in MB/s,
\* float64(testSize) / duration.Seconds() / (1024 * 1024).
MeasuredDuration(elapsed) == IF elapsed < Microsecond THEN Microsecond ELSE elapsed

\* A faulty throughput computed in integers, by the duration in nanoseconds.
ThroughputInteger(size, duration) == (size \div (1024 * 1024)) \div (duration * 1000)

ThroughputMBs(size, duration) ==
    Float64Div(Float64Div((size \div (1024 * 1024)) * 1000000, 1), duration)

\* performanceTest enters generator.GenerateBytes: mutex.Lock() of the
\* instance the trials of one generator share, where the generator has a
\* mutex.
GenLock(i) ==
    /\ trial[i].pc = "attempt"
    /\ Locks(GeneratorOf(i)) => genMutex[InstanceOf(i)] = 0
    /\ genMutex' = IF Locks(GeneratorOf(i))
                   THEN [genMutex EXCEPT ![InstanceOf(i)] = i]
                   ELSE genMutex
    /\ trial' = [trial EXCEPT ![i].pc = "generate"]
    /\ UNCHANGED <<semaphore, resultsChannel, chClosed, wg, tracker, mainpc, allResults>>
    /\ UNCHANGED <<genVars, twinVars, gatherVars, settings, stats, analyzerVars>>

\* A faulty generator that unlocks at the end of GenerateBytes instead of
\* deferring the unlock: a panic leaves the mutex held.
AttemptUnlockNotDeferred(i) ==
    /\ trial[i].pc = "generate"
    /\ \E o \in GenOutcomes(GeneratorOf(i)) :
          /\ trial' = [trial EXCEPT
                 ![i].outs = Append(trial[i].outs, o),
                 ![i].err = IF o = "ok" THEN "nil" ELSE o,
                 ![i].data = (o = "ok"),
                 ![i].duration = IF o = "ok" THEN MeasuredDuration(0) ELSE 0,
                 ![i].throughput =
                     IF o = "ok"
                     THEN ThroughputMBs(settings.testSize, MeasuredDuration(0))
                     ELSE 0,
                 ![i].pc = IF o = "err" /\ trial[i].attempt < maxRetries
                           THEN "backoff" ELSE "send"]
          /\ genMutex' = IF genMutex[InstanceOf(i)] = i /\ o # "panic"
                         THEN [genMutex EXCEPT ![InstanceOf(i)] = 0]
                         ELSE genMutex
    /\ UNCHANGED <<semaphore, resultsChannel, chClosed, wg, tracker, mainpc, allResults>>
    /\ UNCHANGED <<genVars, twinVars, gatherVars, settings, stats, analyzerVars>>

\* A faulty runSingleTest whose deferred function does not recover: after a
\* panic no result is sent and nothing is counted, and only the deferred
\* calls of the goroutine (slot release, wg.Done) run.
AttemptPanicNotRecovered(i) ==
    /\ trial[i].pc = "generate"
    /\ \E o \in GenOutcomes(GeneratorOf(i)) :
          trial' = [trial EXCEPT
              ![i].outs = Append(trial[i].outs, o),
              ![i].err = IF o = "ok" THEN "nil" ELSE o,
              ![i].data = (o = "ok"),
              ![i].duration = IF o = "ok" THEN MeasuredDuration(0) ELSE 0,
              ![i].throughput =
                  IF o = "ok"
                  THEN ThroughputMBs(settings.testSize, MeasuredDuration(0))
                  ELSE 0,
              ![i].pc = IF o = "err" /\ trial[i].attempt < maxRetries
                        THEN "backoff"
                        ELSE IF o = "panic" THEN "release" ELSE "send"]
    /\ genMutex' = IF genMutex[InstanceOf(i)] = i
                   THEN [genMutex EXCEPT ![InstanceOf(i)] = 0]
                   ELSE genMutex
    /\ UNCHANGED <<semaphore, resultsChannel, chClosed, wg, tracker, mainpc, allResults>>
    /\ UNCHANGED <<genVars, twinVars, gatherVars, settings, stats, analyzerVars>>

\* The rest of one iteration of the retry loop of runSingleTest: the call
\* returns data (break), returns an error (sleep and retry, or give up after
\* the last attempt), or panics (the deferred function of runSingleTest
\* recovers); the deferred mutex.Unlock() of GenerateBytes runs in each case.
\* The clock of the model stands still during a call, so that time.Since(start)
\* is zero and the duration is the floor of performanceTest.
Attempt(i) ==
    /\ trial[i].pc = "generate"
    /\ \E o \in GenOutcomes(GeneratorOf(i)) :
          trial' = [trial EXCEPT
              ![i].outs = Append(trial[i].outs, o),
              ![i].err = IF o = "ok" THEN "nil" ELSE o,
              ![i].data = (o = "ok"),
              ![i].duration = IF o = "ok" THEN MeasuredDuration(0) ELSE 0,
              ![i].throughput =
                  IF o = "ok"
                  THEN ThroughputMBs(settings.testSize, MeasuredDuration(0))
                  ELSE 0,
              ![i].pc = IF o = "err" /\ trial[i].attempt < maxRetries
                        THEN "backoff" ELSE "send"]
    /\ genMutex' = IF genMutex[InstanceOf(i)] = i
                   THEN [genMutex EXCEPT ![InstanceOf(i)] = 0]
                   ELSE genMutex
    /\ UNCHANGED <<semaphore, resultsChannel, chClosed, wg, tracker, mainpc, allResults>>
    /\ UNCHANGED <<genVars, twinVars, gatherVars, settings, stats, analyzerVars>>

\* A faulty backoff that always sleeps one unit.
BackoffFlat(i) ==
    /\ trial[i].pc = "backoff"
    /\ trial' = [trial EXCEPT ![i].pc = CallPc(i),
                              ![i].waits = Append(trial[i].waits, backoffUnit),
                              ![i].attempt = trial[i].attempt + 1]
    /\ UNCHANGED <<semaphore, resultsChannel, chClosed, wg, tracker, mainpc, allResults>>
    /\ UNCHANGED <<genVars, twinVars, gatherVars, settings, genMutex, stats, analyzerVars>>

\* A faulty retry that gives its slot back for the time of the sleep.
BackoffGivingUpSlot(i) ==
    /\ trial[i].pc = "backoff"
    /\ semaphore' = semaphore - 1
    /\ trial' = [trial EXCEPT ![i].pc = CallPc(i),
                              ![i].waits = Append(trial[i].waits,
                                                  (trial[i].attempt + 1) * backoffUnit),
                              ![i].attempt = trial[i].attempt + 1]
    /\ UNCHANGED <<resultsChannel, chClosed, wg, tracker, mainpc, allResults>>
    /\ UNCHANGED <<genVars, twinVars, gatherVars, settings, genMutex, stats, analyzerVars>>

\* backoff := (attempt+1) * 100ms; time.Sleep(backoff); attempt++
Backoff(i) ==
    /\ trial[i].pc = "backoff"
    /\ trial' = [trial EXCEPT ![i].pc = CallPc(i),
                              ![i].waits = Append(trial[i].waits,
                                                  (trial[i].attempt + 1) * backoffUnit),
                              ![i].attempt = trial[i].attempt + 1]
    /\ UNCHANGED <<semaphore, resultsChannel, chClosed, wg, tracker, mainpc, allResults>>
    /\ UNCHANGED <<genVars, twinVars, gatherVars, settings, genMutex, stats, analyzerVars>>

\* The TestResult built by the deferred function of runSingleTest.
ResultOf(i) ==
    [trial |-> i, Name |-> GeneratorOf(i), TestRun |-> TestRunOf(i),
     Duration |-> trial[i].duration, Throughput |-> trial[i].throughput,
     Analysis |-> [Length |-> IF trial[i].data THEN settings.testSize ELSE 0,
                   FreqRange |-> 0, ShannonEntropy |-> 0],
     Error |-> trial[i].err, analysed |-> trial[i].data]

\* A faulty delivery that sends nothing for a failed trial.
SendResultUnlessFailed(i) ==
    /\ trial[i].pc = "send"
    /\ ~chClosed
    /\ Len(resultsChannel) < totalTests
    /\ resultsChannel' = IF trial[i].err = "nil"
                         THEN Append(resultsChannel, ResultOf(i))
                         ELSE resultsChannel
    /\ trial' = [trial EXCEPT ![i].pc = "increment"]
    /\ UNCHANGED <<semaphore, chClosed, wg, tracker, mainpc, allResults>>
    /\ UNCHANGED <<genVars, twinVars, gatherVars, settings, genMutex, stats, analyzerVars>>

\* resultsChannel <- result
SendResult(i) ==
    /\ trial[i].pc = "send"
    /\ ~chClosed
    /\ Len(resultsChannel) < totalTests
    /\ resultsChannel' = Append(resultsChannel, ResultOf(i))
    /\ trial' = [trial EXCEPT ![i].pc = "increment"]
    /\ UNCHANGED <<semaphore, chClosed, wg, tracker, mainpc, allResults>>
    /\ UNCHANGED <<genVars, twinVars, gatherVars, settings, genMutex, stats, analyzerVars>>

\* A faulty runSingleTest that counts only the trials that succeeded.
IncrementOnSuccess(i) ==
    /\ trial[i].pc = "increment"
    /\ tracker' = IF trial[i].err = "nil" THEN tracker + 1 ELSE tracker
    /\ trial' = [trial EXCEPT ![i].pc = "release"]
    /\ UNCHANGED <<semaphore, resultsChannel, chClosed, wg, mainpc, allResults>>
    /\ UNCHANGED <<genVars, twinVars, gatherVars, settings, genMutex, stats, analyzerVars>>

\* A faulty runSingleTest that counts a trial once per attempt it made.
IncrementPerAttempt(i) ==
    /\ trial[i].pc = "increment"
    /\ tracker' = tracker + Len(trial[i].outs)
    /\ trial' = [trial EXCEPT ![i].pc = "release"]
    /\ UNCHANGED <<semaphore, resultsChannel, chClosed, wg, mainpc, allResults>>
    /\ UNCHANGED <<genVars, twinVars, gatherVars, settings, genMutex, stats, analyzerVars>>

\* tracker.increment()
Increment(i) ==
    /\ trial[i].pc = "increment"
    /\ tracker' = tracker + 1
    /\ trial' = [trial EXCEPT ![i].pc = "release"]
    /\ UNCHANGED <<semaphore, resultsChannel, chClosed, wg, mainpc, allResults>>
    /\ UNCHANGED <<genVars, twinVars, gatherVars, settings, genMutex, stats, analyzerVars>>

\* defer func() { <-semaphore }()
Release(i) ==
    /\ trial[i].pc = "release"
    /\ semaphore > 0
    /\ semaphore' = semaphore - 1
    /\ trial' = [trial EXCEPT ![i].pc = "wgdone"]
    /\ UNCHANGED <<resultsChannel, chClosed, wg, tracker, mainpc, allResults>>
    /\ UNCHANGED <<genVars, twinVars, gatherVars, settings, genMutex, stats, analyzerVars>>

\* defer wg.Done()
WgDone(i) ==
    /\ trial[i].pc = "wgdone"
    /\ wg' = wg - 1
    /\ trial' = [trial EXCEPT ![i].pc = "finished"]
    /\ UNCHANGED <<semaphore, resultsChannel, chClosed, tracker, mainpc, allResults>>
    /\ UNCHANGED <<genVars, twinVars, gatherVars, settings, genMutex, stats, analyzerVars>>

\* A faulty closer that closes the channel without waiting for the workers.
CloseWithoutWait ==
    /\ mainpc = "collect"
    /\ ~chClosed
    /\ chClosed' = TRUE
    /\ UNCHANGED <<trial, semaphore, resultsChannel, wg, tracker, mainpc, allResults>>
    /\ UNCHANGED <<genVars, twinVars, gatherVars, settings, genMutex, stats, analyzerVars>>

\* The closer goroutine: wg.Wait(); close(resultsChannel)
Close ==
    /\ mainpc = "collect"
    /\ ~chClosed
    /\ WaitReturns(wg)
    /\ chClosed' = TRUE
    /\ UNCHANGED <<trial, semaphore, resultsChannel, wg, tracker, mainpc, allResults>>
    /\ UNCHANGED <<genVars, twinVars, gatherVars, settings, genMutex, stats, analyzerVars>>

\* The collector goroutine: one iteration of "for result := range resultsChannel".
Collect ==
    /\ mainpc = "collect"
    /\ Len(resultsChannel) > 0
    /\ allResults' = Append(allResults, Head(resultsChannel))
    /\ resultsChannel' = Tail(resultsChannel)
    /\ UNCHANGED <<trial, semaphore, chClosed, wg, tracker, mainpc>>
    /\ UNCHANGED <<genVars, twinVars, gatherVars, settings, genMutex, stats, analyzerVars>>

\* The range loop ends on the closed, drained channel; resultsDone <- true
\* lets main go on to the report.
CollectDone ==
    /\ mainpc = "collect"
    /\ chClosed
    /\ Len(resultsChannel) = 0
    /\ mainpc' = "report"
    /\ UNCHANGED <<trial, semaphore, resultsChannel, chClosed, wg, tracker, allResults>>
    /\ UNCHANGED <<genVars, twinVars, gatherVars, settings, genMutex, stats, analyzerVars>>

\* time.Hour, the starting value of MinDuration, scaled down to the durations
\* of the model (microseconds).
Hour == 4

\* The starting value of MinThroughput.
MinThroughputStart == 1000000000

\* The AggregatedResult created for a name met for the first time.  Of the
\* Analysis of a result the model keeps Length, FreqRange and
\* ShannonEntropy: MinFreq and MaxFreq are summed and averaged like
\* FreqRange (integers), Mean, ChiSquare and Autocorrelation like
\* ShannonEntropy (floats).
NewAggregatedResult(name) ==
    [Name |-> name, TotalTests |-> 0, SuccessfulTests |-> 0, FailedTests |-> 0,
     AvgDuration |-> 0, MinDuration |-> Hour, MaxDuration |-> 0,
     AvgThroughput |-> 0, MinThroughput |-> MinThroughputStart, MaxThroughput |-> 0,
     AvgAnalysis |-> [Length |-> 0, FreqRange |-> 0, ShannonEntropy |-> 0],
     TotalDataGenerated |-> 0]

\* A faulty first loop that does not count the failed results.
TallyDropsFailed(agg, result) ==
    IF result.Error = "nil"
    THEN [agg EXCEPT
            !.TotalTests = @ + 1,
            !.SuccessfulTests = @ + 1,
            !.TotalDataGenerated = @ + result.Analysis.Length,
            !.MinDuration = IF result.Duration < @ THEN result.Duration ELSE @,
            !.MaxDuration = IF result.Duration > @ THEN result.Duration ELSE @,
            !.MinThroughput = IF result.Throughput < @ THEN result.Throughput ELSE @,
            !.MaxThroughput = IF result.Throughput > @ THEN result.Throughput ELSE @]
    ELSE [agg EXCEPT !.TotalTests = @ + 1]

\* The body of the first loop of aggregateResults, for one result.
Tally(agg, result) ==
    IF result.Error = "nil"
    THEN [agg EXCEPT
            !.TotalTests = @ + 1,
            !.SuccessfulTests = @ + 1,
            !.TotalDataGenerated = @ + result.Analysis.Length,
            !.MinDuration = IF result.Duration < @ THEN result.Duration ELSE @,
            !.MaxDuration = IF result.Duration > @ THEN result.Duration ELSE @,
            !.MinThroughput = IF result.Throughput < @ THEN result.Throughput ELSE @,
            !.MaxThroughput = IF result.Throughput > @ THEN result.Throughput ELSE @]
    ELSE [agg EXCEPT !.TotalTests = @ + 1, !.FailedTests = @ + 1]

\* The first loop: aggregated[name] is created or updated, in list order.
RECURSIVE Grouped(_, _)
Grouped(rs, aggregated) ==
    IF rs = <<>> THEN aggregated
    ELSE LET result == Head(rs)
             name == result.Name
             agg == IF name \in DOMAIN aggregated THEN aggregated[name]
                    ELSE NewAggregatedResult(name)
         IN  Grouped(Tail(rs),
                     [n \in (DOMAIN aggregated) \cup {name} |->
                         IF n = name THEN Tally(agg, result) ELSE aggregated[n]])

\* The sums of the averaging, before the first result.
ZeroTotals ==
    [totalDuration |-> 0, totalThroughput |-> 0,
     totalAnalysis |-> [Length |-> 0, FreqRange |-> 0, ShannonEntropy |-> 0],
     successCount |-> 0]

\* totalDuration += result.Duration; ...; successCount++
AddToTotals(acc, result) ==
    [totalDuration |-> acc.totalDuration + result.Duration,
     totalThroughput |-> Float64Add(acc.totalThroughput, result.Throughput),
     totalAnalysis |->
         [Length |-> acc.totalAnalysis.Length + result.Analysis.Length,
          FreqRange |-> acc.totalAnalysis.FreqRange + result.Analysis.FreqRange,
          ShannonEntropy |-> Float64Add(acc.totalAnalysis.ShannonEntropy,
                                        result.Analysis.ShannonEntropy)],
     successCount |-> acc.successCount + 1]

\* A faulty inner loop that also sums the failed results of the name.
RECURSIVE TotalsOfAll(_, _, _)
TotalsOfAll(rs, name, acc) ==
    IF rs = <<>> THEN acc
    ELSE TotalsOfAll(Tail(rs), name,
                     IF Head(rs).Name = name THEN AddToTotals(acc, Head(rs)) ELSE acc)

\* The inner loop of the averaging: the sums over the successful rs of
\* one name, in list order.
RECURSIVE Totals(_, _, _)
Totals(rs, name, acc) ==
    IF rs = <<>> THEN acc
    ELSE LET result == Head(rs)
         IN  Totals(Tail(rs), name,
                    IF result.Name = name /\ result.Error = "nil"
                    THEN AddToTotals(acc, result)
                    ELSE acc)

\* The body of the second loop, for one entry.  The Analysis literal
\* assigned to AvgAnalysis has no Length, which is therefore 0.
Averaged(agg, rs) ==
    IF agg.SuccessfulTests > 0
    THEN LET t == Totals(rs, agg.Name, ZeroTotals)
         IN  IF t.successCount > 0
             THEN [agg EXCEPT
                     !.AvgDuration = t.totalDuration \div t.successCount,
                     !.AvgThroughput = Float64Div(t.totalThroughput, t.successCount),
                     !.AvgAnalysis =
                         [Length |-> 0,
                          FreqRange |-> t.totalAnalysis.FreqRange \div t.successCount,
                          ShannonEntropy |->
                              Float64Div(t.totalAnalysis.ShannonEntropy,
                                         t.successCount)]]
             ELSE agg
    ELSE agg

\* A faulty aggregation that reports only the generators with a success.
aggregateSuccessful(rs) ==
    LET aggregated == Grouped(rs, <<>>)
    IN  [name \in {n \in DOMAIN aggregated : aggregated[n].SuccessfulTests > 0} |->
            Averaged(aggregated[name], rs)]

aggregateResults(rs) ==
    LET aggregated == Grouped(rs, <<>>)
    IN  [name \in DOMAIN aggregated |-> Averaged(aggregated[name], rs)]

\* main after <-resultsDone: aggregated := aggregateResults(allResults)
Aggregate ==
    /\ mainpc = "report"
    /\ stats' = aggregateResults(allResults)
    /\ mainpc' = "done"
    /\ UNCHANGED <<trial, semaphore, resultsChannel, chClosed, wg, tracker, allResults>>
    /\ UNCHANGED <<genVars, twinVars, gatherVars, settings, genMutex, analyzerVars>>

NextOrch ==
    \/ \E i \in Trials : Launch(i)
    \/ Launched
    \/ \E i \in Trials : Acquire(i)
    \/ \E i \in Trials : GenLock(i)
    \/ \E i \in Trials : Attempt(i)
    \/ \E i \in Trials : Backoff(i)
    \/ \E i \in Trials : SendResult(i)
    \/ \E i \in Trials : Increment(i)
    \/ \E i \in Trials : Release(i)
    \/ \E i \in Trials : WgDone(i)
    \/ Close
    \/ Collect
    \/ CollectDone
    \/ Aggregate

SpecOrch == InitOrch /\ [][NextOrch]_vars

\* The trials between acquiring and releasing a semaphore slot.
InFlight ==
    {i \in Trials : trial[i].pc \in {"attempt", "generate", "backoff", "send",
                                     "increment", "release"}}

\* C1: at every moment of a run, at most maxConcurrency trials are between
\* acquiring and releasing a semaphore slot (running runSingleTest and its
\* generator call), and the slots taken are exactly those trials.
C1_AdmissionGate ==
    /\ Cardinality(InFlight) <= settings.maxConcurrency
    /\ semaphore = Cardinality(InFlight)

C1_Witness ==
    /\ Cardinality(InFlight) = settings.maxConcurrency
    /\ \E i, j \in Trials :
          /\ trial[i].pc = "backoff" /\ trial[i].attempt = 1
          /\ trial[j].pc = "acquire"

\* The trial has left the retry loop of runSingleTest.
PastRetries(i) == trial[i].pc \in {"send", "increment", "release", "wgdone", "finished"}

\* What holds of the attempts of a trial at any moment: at most
\* 1 + maxRetries calls, every call but the last one failed, and before the
\* k-th retry the trial slept k * 100ms.
RetryDiscipline(i) ==
    /\ Len(trial[i].outs) <= maxRetries + 1
    /\ \A k \in 1..(Len(trial[i].outs) - 1) : trial[i].outs[k] = "err"
    /\ Len(trial[i].waits) = trial[i].attempt
    /\ Len(trial[i].waits) <= maxRetries
    /\ \A k \in 1..Len(trial[i].waits) : trial[i].waits[k] = k * backoffUnit
    /\ trial[i].pc \in {"attempt", "generate"} => Len(trial[i].outs) = trial[i].attempt
    /\ trial[i].pc = "backoff" => Len(trial[i].outs) = trial[i].attempt + 1

\* C12 (as claimed): at most 1 + maxRetries calls, stopping at the first
\* success, with a backoff of (k+1) x 100ms after failed attempt k and none
\* after the last; an error is recorded only if all 3 attempts failed.
C12_ErrorOnlyAfterThreeAttempts ==
    \A i \in Trials :
        /\ RetryDiscipline(i)
        /\ PastRetries(i)
           => (trial[i].err # "nil") = (Len(trial[i].outs) = maxRetries + 1
                                        /\ \A k \in 1..Len(trial[i].outs) :
                                               trial[i].outs[k] # "ok")

\* C12 (amended): as above, except that an error is recorded if all 3
\* attempts returned an error, or if an attempt panicked, which ends the
\* trial at once whatever attempts are left.
C12_RetryPolicy ==
    \A i \in Trials :
        /\ RetryDiscipline(i)
        /\ PastRetries(i)
           => LET last == trial[i].outs[Len(trial[i].outs)]
              IN  /\ Len(trial[i].outs) = Len(trial[i].waits) + 1
                  /\ trial[i].err = (IF last = "ok" THEN "nil" ELSE last)
                  /\ last = "err" => Len(trial[i].outs) = maxRetries + 1
                  /\ trial[i].data = (last = "ok")

C12_Witness ==
    \E i, j \in Trials :
        /\ trial[i].pc = "finished" /\ trial[i].outs = <<"err", "err", "err">>
        /\ trial[i].waits = <<100, 200>>
        /\ trial[j].pc = "finished" /\ trial[j].outs = <<"ok">>

\* Every TestResult delivered so far, collected or still in the channel.
Delivered == allResults \o resultsChannel

\* C13: a trial whose generator fails on every attempt delivers a TestResult
\* carrying its error, and no trial's failure touches another trial: every
\* delivered result is that of its own (generator, run) pair with that
\* trial's own error, no pair is delivered twice, and when the run has
\* finished the collected list holds exactly one result per pair.
C13_FailureContained ==
    /\ LET D == Delivered
       IN  /\ \A k \in DOMAIN D :
                 /\ D[k].Name = GeneratorOf(D[k].trial)
                 /\ D[k].TestRun = TestRunOf(D[k].trial)
                 /\ D[k].Error = trial[D[k].trial].err
                 /\ PastRetries(D[k].trial) /\ trial[D[k].trial].pc # "send"
           /\ \A k, l \in DOMAIN D :
                 k # l => <<D[k].Name, D[k].TestRun>> # <<D[l].Name, D[l].TestRun>>
    /\ mainpc = "report"
       => /\ Len(allResults) = totalTests
          /\ \A i \in Trials :
                /\ trial[i].pc = "finished"
                /\ \E k \in DOMAIN allResults :
                      /\ allResults[k].Name = GeneratorOf(i)
                      /\ allResults[k].TestRun = TestRunOf(i)
                      /\ (allResults[k].Error # "nil")
                            = (trial[i].outs[Len(trial[i].outs)] # "ok")

C13_Witness ==
    /\ mainpc = "report"
    /\ \E k, l \in DOMAIN allResults :
          /\ k < l
          /\ allResults[k].Error = "err"
          /\ trial[allResults[k].trial].outs = <<"err", "err", "err">>
          /\ allResults[l].Error = "nil"


\* Runs in which every trial shares one generator instance: a roster of a
\* single generator, one run more than numRuns, and a gate of any size up to
\* one slot more than maxConcurrency.
SharedSettings ==
    {[testSize |-> 1024 * 1024, generators |-> <<Generators[k]>>,
      numRuns |-> numRuns + 1, maxConcurrency |-> K] :
        k \in DOMAIN Generators, K \in 1..(maxConcurrency + 1)}

\* A step of the goroutine of trial i, from the semaphore to wg.Done().
TrialStep(i) ==
    \/ Acquire(i) \/ GenLock(i) \/ Attempt(i) \/ Backoff(i)
    \/ SendResult(i) \/ Increment(i) \/ Release(i) \/ WgDone(i)

\* A step of main in its launch loop, of a trial, of the closer or of the
\* collector.
Scheduled ==
    \/ \E i \in Trials : Launch(i)
    \/ Launched
    \/ \E i \in Trials : TrialStep(i)
    \/ Close \/ Collect \/ CollectDone

\* The Go scheduler runs some goroutine that is able to run.
SpecShared ==
    /\ \E S \in SharedSettings : InitRun(S)
    /\ [][NextOrch]_vars
    /\ WF_vars(Scheduled)

\* Some launched trial has not finished, and none of them can take a step.
TrialsStuck ==
    /\ \E i \in Trials : trial[i].pc \notin {"none", "finished"}
    /\ ~ ENABLED (\E i \in Trials : TrialStep(i))

\* Every trial has finished with nothing left held, the channel is closed
\* and drained, and the collector has returned.
RunOver ==
    /\ \A i \in Trials : trial[i].pc = "finished" /\ Len(trial[i].outs) >= 1
    /\ semaphore = 0
    /\ \A k \in DOMAIN genMutex : genMutex[k] = 0
    /\ wg = 0
    /\ chClosed /\ resultsChannel = <<>>
    /\ Len(allResults) = totalTests
    /\ mainpc \notin {"launch", "collect"}

\* C14: with the trials of a run sharing one generator instance behind a gate
\* of K slots, no state is reached in which unfinished trials exist and none
\* of them can step, only the trial inside GenerateBytes holds the mutex, and
\* under fair scheduling the run ends: every trial has taken a slot and the
\* generator mutex, finished and released both, the channel is closed and
\* the collector has terminated.
C14_NoDeadlockNoStarvation ==
    /\ [](~ TrialsStuck)
    /\ [](\A k \in DOMAIN genMutex :
             genMutex[k] # 0 => /\ trial[genMutex[k]].pc = "generate"
                                /\ InstanceOf(genMutex[k]) = k)
    /\ <>[]RunOver

C14_Witness ==
    \E i, j \in Trials :
        /\ i # j /\ InstanceOf(i) = InstanceOf(j)
        /\ trial[i].pc = "generate" /\ genMutex[InstanceOf(i)] = i
        /\ trial[i].attempt = 0
        /\ trial[j].pc = "attempt"
        /\ trial[j].outs = <<>>


\* The trials that are past tracker.increment().
Counted == {i \in Trials : trial[i].pc \in {"release", "wgdone", "finished"}}

\* C16: the completed counter is incremented exactly once per trial, failed
\* or not: at every moment it is the number of trials past their increment;
\* it never decreases, moves by one at a time, never exceeds
\* total = numGenerators x numRuns, and equals total once the run has finished.
C16_ProgressCounter ==
    /\ [](/\ tracker = Cardinality(Counted)
          /\ tracker <= Len(settings.generators) * settings.numRuns
          /\ mainpc = "report" => tracker = totalTests)
    /\ [][/\ tracker' \in {tracker, tracker + 1}
          /\ tracker' = tracker + 1
             => \E i \in Trials : /\ trial[i].pc = "increment"
                                  /\ trial'[i].pc = "release"]_vars

C16_Witness ==
    /\ mainpc = "report"
    /\ tracker = totalTests
    /\ \E i, j \in Trials :
          /\ trial[i].err = "panic" /\ trial[i].pc = "finished"
          /\ trial[j].err = "err" /\ trial[j].pc = "finished"


(***************************************************************************)
(* SpecAgg: aggregateResults as a function of its argument.  The list      *)
(* handed to it is any list of up to MaxResults TestResults; the one       *)
(* action applies the function.                                            *)
(***************************************************************************)
MaxResults == 3

\* TestResults of both generators, failed or not, with a short and a long
\* duration and with two neighbouring throughputs whose sums need rounding,
\* and of a trial that took longer than an hour.
SampleResults ==
    {[Name |-> Generators[g], TestRun |-> 1, Duration |-> m[1], Throughput |-> m[2],
      Analysis |-> [Length |-> 1024 * 1024 * m[1], FreqRange |-> 2 * m[1] + 1,
                    ShannonEntropy |-> m[2] - 1],
      Error |-> e] :
        g \in DOMAIN Generators,
        m \in {<<1, 2 ^ (MantissaBits - 1) + 1>>, <<2, 2 ^ (MantissaBits - 1)>>,
               <<Hour + 1, 1>>},
        e \in {"nil", "err"}}

InitAgg ==
    /\ GenIdle /\ TwinIdle /\ GatherIdle /\ AnalyzerIdle
    /\ variant = "HybridV2"
    /\ now \in StartTime
    /\ trial = <<>> /\ semaphore = 0 /\ resultsChannel = <<>> /\ chClosed = TRUE
    /\ wg = 0 /\ tracker = 0
    /\ settings = <<>> /\ genMutex = <<>>
    /\ mainpc = "report"
    /\ allResults \in UNION {[1..k -> SampleResults] : k \in 0..MaxResults}
    /\ stats = <<>>

NextAgg == Aggregate

SpecAgg == InitAgg /\ [][NextAgg]_vars

\* The results of the list with the given name, and those of them without
\* and with an error.
Named(rs, name) == {k \in DOMAIN rs : rs[k].Name = name}
Successful(rs, name) == {k \in Named(rs, name) : rs[k].Error = "nil"}
Failed(rs, name) == {k \in Named(rs, name) : rs[k].Error # "nil"}

\* C17: aggregateResults groups by generator name: the map has an entry for
\* exactly the names occurring in the list; in it TotalTests is the number
\* of results with that name, SuccessfulTests the number of those with a nil
\* Error and FailedTests the number with an Error, so that
\* TotalTests = SuccessfulTests + FailedTests.
C17_GroupedByName ==
    mainpc = "done"
    => /\ DOMAIN stats = {allResults[k].Name : k \in DOMAIN allResults}
       /\ \A name \in DOMAIN stats :
             /\ stats[name].Name = name
             /\ stats[name].TotalTests = Cardinality(Named(allResults, name))
             /\ stats[name].SuccessfulTests = Cardinality(Successful(allResults, name))
             /\ stats[name].FailedTests = Cardinality(Failed(allResults, name))
             /\ stats[name].TotalTests
                   = stats[name].SuccessfulTests + stats[name].FailedTests

C17_Witness ==
    /\ mainpc = "done"
    /\ Len(allResults) = MaxResults
    /\ DOMAIN stats = {"Hybrid CSPRNG"}
    /\ stats["Hybrid CSPRNG"].SuccessfulTests = 1
    /\ stats["Hybrid CSPRNG"].FailedTests = MaxResults - 1


\* C18: a generator whose trials all failed still has an entry in the map,
\* with SuccessfulTests = 0 and FailedTests = TotalTests = the number of its
\* trials; its averages are left at zero, no division being made for it.
C18_AllFailedStillListed ==
    mainpc = "done"
    => \A k \in DOMAIN allResults :
          LET name == allResults[k].Name
          IN  Successful(allResults, name) = {}
              => /\ name \in DOMAIN stats
                 /\ stats[name].SuccessfulTests = 0
                 /\ stats[name].FailedTests = Cardinality(Named(allResults, name))
                 /\ stats[name].TotalTests = stats[name].FailedTests
                 /\ stats[name].AvgDuration = 0
                 /\ stats[name].AvgThroughput = 0
                 /\ stats[name].TotalDataGenerated = 0

C18_Witness ==
    /\ mainpc = "done"
    /\ \E name, other \in DOMAIN stats :
          /\ stats[name].TotalTests = 2
          /\ stats[name].FailedTests = 2
          /\ stats[other].SuccessfulTests = 1
          /\ allResults[1].Name = name


\* The rearrangements of a list.
Rearranged(rs) ==
    {[k \in DOMAIN rs |-> rs[p[k]]] :
        p \in {q \in [DOMAIN rs -> DOMAIN rs] : \A i, j \in DOMAIN rs : i # j => q[i] # q[j]}}

\* C19: aggregation is order-independent: for any list of TestResults and any
\* permutation of it, aggregateResults returns the same map, with the same
\* counts, minima and maxima, totals and averages per generator name.
C19_OrderIndependent ==
    mainpc = "done" => \A rs \in Rearranged(allResults) : aggregateResults(rs) = stats


\* The trials of the g-th generator of the roster.
TrialsOf(g) == {i \in Trials : InstanceOf(i) = g}

\* C20: end to end, N trials of a generator whose GenerateBytes succeeded on
\* every call yield exactly N TestResults of that generator, each with a nil
\* Error and a positive throughput, and an aggregate of that generator with
\* SuccessfulTests = N and FailedTests = 0.
C20_NeverFailingEndToEnd ==
    mainpc = "done"
    => \A g \in DOMAIN settings.generators :
          LET name == settings.generators[g]
              mine == Named(allResults, name)
          IN  (\A i \in TrialsOf(g) : \A k \in DOMAIN trial[i].outs : trial[i].outs[k] = "ok")
              => /\ Cardinality(mine) = settings.numRuns
                 /\ \A k \in mine : /\ allResults[k].Error = "nil"
                                    /\ allResults[k].Throughput > 0
                                    /\ allResults[k].Duration > 0
                 /\ {allResults[k].TestRun : k \in mine} = 1..settings.numRuns
                 /\ stats[name].TotalTests = settings.numRuns
                 /\ stats[name].SuccessfulTests = settings.numRuns
                 /\ stats[name].FailedTests = 0
                 /\ stats[name].MinThroughput > 0

C20_Witness ==
    /\ mainpc = "done"
    /\ settings.generators = <<"System CSPRNG">>
    /\ settings.maxConcurrency < settings.numRuns
    /\ \A i \in Trials : trial[i].outs = <<"ok">>
    /\ stats["System CSPRNG"].SuccessfulTests = settings.numRuns
    /\ allResults[1].TestRun > 1

(***************************************************************************)
(* Claims about the generation loop and the bookkeeping of one call.       *)
(***************************************************************************)
\* The step is an iteration of the generation loop of caller t.
BlockTaken(t) == thr[t].pc = "loop" /\ thr'[t].blocks = thr[t].blocks + 1

\* C25: a GenerateBytes(n) call produces exactly ceil(n/32) blocks; each
\* block is HMAC-SHA256 keyed by the seed of that moment over the counter of
\* that moment as 8 big-endian bytes, and is written to the result right
\* after the blocks before it, cut to what is left of n; the counter goes up
\* by one with each block, so by ceil(n/32) over the call, and the result
\* has exactly n bytes.
C25_CounterModeBlocks ==
    /\ [](\A t \in Threads :
             /\ thr[t].pc \in {"loop", "unlock", "done"}
                => /\ Len(thr[t].result) = thr[t].n
                   /\ thr[t].generated = Min(thr[t].n, BlockSize * thr[t].blocks)
                   /\ gen.counter = gen0.counter + thr[t].blocks
             /\ thr[t].pc \in {"unlock", "done"}
                => /\ thr[t].blocks = CeilDiv(thr[t].n, BlockSize)
                   /\ gen.counter = gen0.counter + CeilDiv(thr[t].n, BlockSize))
    /\ [][\A t \in Threads :
             BlockTaken(t)
             => LET block == HmacSha256(gen.state, BE8(gen.counter))
                    at == BlockSize * thr[t].blocks
                    left == thr[t].n - at
                IN  /\ left > 0
                    /\ Len(block) = BlockSize
                    /\ gen'.counter = gen.counter + 1
                    /\ \A k \in 1..thr[t].n :
                          thr'[t].result[k] =
                              IF k > at /\ k <= at + BlockSize
                              THEN block[k - at] ELSE thr[t].result[k]]_vars

C25_Witness ==
    /\ thr[1].pc = "done" /\ thr[1].n = BlockSize + 1 /\ thr[1].blocks = 2
    /\ gen.counter = gen0.counter + 2 /\ gen0.counter > 0
    /\ Len(thr[1].result) = BlockSize + 1

\* The seed the generation loop of caller t started from: the seed the
\* call's reseed produced, or else the seed the call found.
StartSeed(t) ==
    IF thr[t].reseeds = 1
    THEN ReseedGen(variant, thr[t].pre, thr[t].obs, thr[t].tReseed).state
    ELSE gen0.state

\* The step leaves the generation loop of caller t.
LoopLeft(t) == thr[t].pc = "loop" /\ thr'[t].pc = "unlock"

\* C26 (as claimed): every block of a call is keyed by the seed held at the
\* start of generation (the seed is not modified between blocks), and by the
\* time a call for n > 0 bytes returns the seed has been updated.
C26_SeedUpdatedOnceAfterBlocks ==
    /\ [][\A t \in Threads : BlockTaken(t) => gen.state = StartSeed(t)]_vars
    /\ [](\A t \in Threads :
             (thr[t].pc \in {"unlock", "done"} /\ ~thr[t].panicked /\ thr[t].n > 0)
             => gen.state # StartSeed(t))

\* C26 (amended): the drafts without reseed produce all blocks of a call
\* from the seed held at the start of generation and then update the seed
\* once, to HMAC(seed, "update" + result[:min(32, n)]), unless the call
\* panics at that point; the reseeding drafts update the seed after every
\* block, to HMAC(seed, block), so that block j+1 is keyed by the seed
\* updated from block j, the seed is updated ceil(n/32) times in the call
\* and not at all when n = 0.  Nothing else in the call but its reseed
\* changes the seed.
C26_SeedUpdate ==
    /\ [](\A t \in Threads :
             (thr[t].pc = "loop" /\ thr[t].blocks = 0) => gen.state = StartSeed(t))
    /\ [][\A t \in Threads :
             /\ BlockTaken(t)
                => IF Reseeding(variant)
                   THEN gen'.state =
                            HmacSha256(gen.state, HmacSha256(gen.state, BE8(gen.counter)))
                   ELSE gen'.state = gen.state /\ gen.state = StartSeed(t)
             /\ LoopLeft(t)
                => IF Reseeding(variant) \/ thr'[t].panicked
                   THEN gen'.state = gen.state
                   ELSE gen'.state =
                            HmacSha256(StartSeed(t),
                                       TxtUpdate \o Prefix(thr[t].result,
                                                           Min(UpdateSlice, thr[t].n)))
             /\ (thr[t].pc \in {"lock", "check", "unlock"} /\ thr'[t].pc # thr[t].pc)
                => gen'.state = gen.state]_vars

C26_Witness ==
    /\ Reseeding(variant) /\ thr[1].pc = "done" /\ thr[1].blocks = 2
    /\ thr[1].reseeds = 0
    /\ gen.state # HmacSha256(gen0.state, HmacSha256(gen0.state, BE8(gen0.counter)))
    /\ gen.state # gen0.state

\* C27: a GenerateBytes(n) call of a reseeding draft adds exactly n to
\* bytesGenerated, after the generation loop: when the call is over
\* bytesGenerated is n if the call reseeded and the value the call found
\* plus n otherwise; apart from that addition only reseed (in a call or in
\* the constructor) changes bytesGenerated, and it sets it to 0.
C27_ByteAccounting ==
    /\ [](\A t \in Threads :
             /\ (Reseeding(variant) /\ thr[t].pc \in {"unlock", "done"})
                => gen.bytesGenerated =
                      (IF thr[t].reseeds = 1 THEN 0 ELSE gen0.bytesGenerated) + thr[t].n
             /\ (Reseeding(variant) /\ thr[t].pc = "loop")
                => gen.bytesGenerated =
                      (IF thr[t].reseeds = 1 THEN 0 ELSE gen0.bytesGenerated))
    /\ [][gen'.bytesGenerated # gen.bytesGenerated
          => \/ ctor = "seeding" /\ gen'.bytesGenerated = 0
             \/ \E t \in Threads :
                   \/ thr[t].pc = "reseed" /\ gen'.bytesGenerated = 0
                   \/ /\ LoopLeft(t) /\ Reseeding(variant)
                      /\ gen'.bytesGenerated = gen.bytesGenerated + thr[t].n]_vars

C27_Witness ==
    /\ variant = "WeatherV3" /\ thr[1].pc = "done" /\ thr[1].reseeds = 1
    /\ thr[1].n = BlockSize + 1 /\ gen.bytesGenerated = BlockSize + 1
    /\ gen0.bytesGenerated > RESEED_BYTE_INTERVAL

\* The key of the conditioning HMAC in HybridCSPRNG.reseed under observation
\* e: the 32 bytes rand.Read delivered, or the fallback text.
SystemEntropyKey(e) == IF e.sys = "ok" THEN SystemBytes ELSE TxtFatalSystemKey

\* C28: every reseed of the hybrid generator, in the constructor or in a
\* call, takes a 32-byte key from the system RNG, or the fixed 32-byte
\* fallback text if the read fails, computes HMAC(key, weatherEntropy) and
\* sets seed := HMAC(old seed, that digest); a failed read is not reported:
\* the reseed completes, and the call it is part of returns its n bytes.
C28_HybridReseed ==
    /\ [](variant = "HybridV3"
          => /\ Len(TxtFatalSystemKey) = 32 /\ Len(SystemBytes) = 32
             /\ \A i \in DOMAIN hist :
                   ~hist[i].panicked /\ Len(hist[i].bytes) = hist[i].n
             /\ ctor = "done"
                => gen0.state = HmacSha256(<<>>, HmacSha256(SystemEntropyKey(ctorObs),
                                                          HybridWeatherEntropy(ctorObs)))
                   \/ gen0.counter > 0)
    /\ [][variant = "HybridV3"
          => \A t \in Threads :
                thr[t].pc = "reseed" /\ thr'[t].pc # "reseed"
                => /\ thr'[t].pc = "loop" /\ ~thr'[t].panicked
                   /\ gen'.state =
                         HmacSha256(gen.state,
                                    HmacSha256(SystemEntropyKey(thr'[t].obs),
                                               HybridWeatherEntropy(thr'[t].obs)))
                   /\ gen'.counter = gen.counter
                   /\ gen'.lastReseed = now /\ gen'.bytesGenerated = 0]_vars

C28_Witness ==
    /\ variant = "HybridV3" /\ thr[1].pc = "done" /\ thr[1].reseeds = 1
    /\ thr[1].obs.sys = "err" /\ thr[1].obs.w = "ok"
    /\ Len(hist) = 1 /\ Len(hist[1].bytes) = BlockSize + 1

(***************************************************************************)
(* float64 values that are not whole numbers.  A value is a pair <<n, d>>  *)
(* standing for n/d, with d a power of two and n odd unless d = 1; the     *)
(* result of an operation is the exact result rounded to MantissaBits      *)
(* significant bits (53 in float64), to nearest, ties to even.  <<0, 0>>   *)
(* is NaN and <<1, 0>> is +Inf.                                            *)
(***************************************************************************)
NaN == <<0, 0>>
PosInf == <<1, 0>>
Zero == <<0, 1>>

Abs(n) == IF n < 0 THEN 0 - n ELSE n

\* n/d in lowest terms, d a power of two.
Lowest[n \in Int, d \in Nat] ==
    IF d > 1 /\ n % 2 = 0 THEN Lowest[n \div 2, d \div 2] ELSE <<n, d>>

\* The power of two by which a/d has to be scaled for its whole part to
\* have MantissaBits bits at least.
ScaleUp[a \in Nat, d \in Nat] ==
    IF a \div d >= 2 ^ (MantissaBits - 1) THEN 1 ELSE 2 * ScaleUp[2 * a, d]

\* The float64 nearest to n/d, for d > 0.
Float64Of(n, d) ==
    IF n = 0 THEN Zero
    ELSE LET s == ScaleUp[Abs(n), d]
             q == Float64Div(Abs(n) * s, d)
         IN  Lowest[IF n < 0 THEN 0 - q ELSE q, s]

\* float64(i) of an int: exact below 2^53, as every length, count and sum of
\* the benchmark is.
FromInt(i) == <<i, 1>>

FAdd(x, y) == Float64Of(x[1] * y[2] + y[1] * x[2], x[2] * y[2])
FSub(x, y) == Float64Of(x[1] * y[2] - y[1] * x[2], x[2] * y[2])
FMul(x, y) == Float64Of(x[1] * y[1], x[2] * y[2])

\* x / y for x >= 0 and finite y: division by zero gives +Inf, 0/0 gives
\* NaN, and +Inf and NaN divided by a finite value stay what they are.
FDiv(x, y) ==
    IF x[2] = 0 THEN x
    ELSE IF y[1] = 0 THEN (IF x[1] = 0 THEN NaN ELSE PosInf)
    ELSE Float64Of((IF y[1] < 0 THEN 0 - 1 ELSE 1) * x[1] * y[2], x[2] * Abs(y[1]))

\* x > 0, for values that are not NaN.
Positive(x) == x[1] > 0

\* math.Frexp for 0 < n/d <= 1: n/d = (f[1]/f[2]) * 2^f[3] with
\* 1/2 <= f[1]/f[2] < 1.
Frexp[n \in Nat, d \in Nat] ==
    IF 2 * n >= d
    THEN (IF n = d THEN <<1, 2, 1>> ELSE <<n, d, 0>>)
    ELSE LET f == Frexp[2 * n, d] IN <<f[1], f[2], f[3] - 1>>

\* math.Log2(x) for 0 < x <= 1: exact for a power of two (the exponent);
\* for the other values the logarithm of the fraction is replaced by the
\* chord of log2 between 1/2 and 1, which is 2f - 2.
Log2(x) ==
    LET f == Frexp[x[1], x[2]]
    IN  IF 2 * f[1] = f[2] THEN FromInt(f[3] - 1)
        ELSE FAdd(Float64Of(2 * f[1] - 2 * f[2], f[2]), FromInt(f[3]))

(***************************************************************************)
(* The statistical analyzer.  A byte has ByteBits bits (8 in the program), *)
(* so there are 2^ByteBits byte values (256), and the autocorrelation      *)
(* window is capped at AutocorrCap bytes (50000).  MantissaBits is large   *)
(* enough for a sum of 2^ByteBits terms ByteBits / 2^ByteBits to be exact  *)
(* at every step, as the 53 bits of float64 are for 256 terms 8/256.       *)
(***************************************************************************)
ByteBits == 2
AutocorrCap == 3

NumByteValues == 2 ^ ByteBits
ByteValues == 0..(NumByteValues - 1)

\* counts[b]++ for every byte of the data
byteCounts(buf) ==
    [b \in ByteValues |-> Cardinality({i \in DOMAIN buf : buf[i] = b})]

\* for i := 0; i < 256; i++ { diff := observed - expected;
\*                            chiSquareStat += (diff * diff) / expected }
RECURSIVE ChiSquareSum(_, _, _, _)
ChiSquareSum(counts, expected, i, acc) ==
    IF i >= NumByteValues THEN acc
    ELSE LET diff == FSub(FromInt(counts[i]), expected)
         IN  ChiSquareSum(counts, expected, i + 1,
                          FAdd(acc, FDiv(FMul(diff, diff), expected)))

\* A faulty chi-square that divides before it looks at the length.
calculateChiSquareUnguarded(buf) ==
    LET expected == FDiv(FromInt(Len(buf)), FromInt(NumByteValues))
        diff == FSub(FromInt(byteCounts(buf)[0]), expected)
    IN  IF Len(buf) = 0 THEN FDiv(FMul(diff, diff), expected)
        ELSE ChiSquareSum(byteCounts(buf), expected, 0, Zero)

calculateChiSquare(buf) ==
    IF Len(buf) = 0 THEN Zero
    ELSE ChiSquareSum(byteCounts(buf),
                      FDiv(FromInt(Len(buf)), FromInt(NumByteValues)), 0, Zero)

\* A faulty step that adds p * log2(p) instead of subtracting it.
EntropyStepAdds(acc, count, dataLen) ==
    LET p == FDiv(FromInt(count), FromInt(dataLen))
    IN  FAdd(acc, FMul(p, Log2(p)))

\* p := float64(count) / dataLen; entropy -= p * math.Log2(p)
EntropyStep(acc, count, dataLen) ==
    LET p == FDiv(FromInt(count), FromInt(dataLen))
    IN  FSub(acc, FMul(p, Log2(p)))

\* The entropy loop over the byte values in increasing order, skipping the
\* values that do not occur.
RECURSIVE ShannonSum(_, _, _, _)
ShannonSum(counts, dataLen, i, acc) ==
    IF i >= NumByteValues THEN acc
    ELSE ShannonSum(counts, dataLen, i + 1,
                    IF counts[i] > 0 THEN EntropyStep(acc, counts[i], dataLen)
                    ELSE acc)

\* calculateShannonEntropy ranges over a map, whose iteration order is not
\* specified: the values the function may return, one per order of the
\* byte values that occur.
calculateShannonEntropy(buf) ==
    IF Len(buf) = 0 THEN {Zero}
    ELSE LET counts == byteCounts(buf)
             keys == {b \in ByteValues : counts[b] > 0}
             sums[S \in SUBSET keys] ==
                 IF S = {} THEN {Zero}
                 ELSE UNION {{EntropyStep(a, counts[k], Len(buf)) :
                                a \in sums[S \ {k}]} : k \in S}
         IN  sums[keys]

\* s++ for every 1 bit and s-- for every 0 bit of the data
RECURSIVE BitBalance(_, _)
BitBalance(b, i) ==
    IF i >= ByteBits THEN 0
    ELSE (IF (b \div (2 ^ i)) % 2 = 1 THEN 1 ELSE 0 - 1) + BitBalance(b, i + 1)

RECURSIVE MonobitSum(_, _)
MonobitSum(buf, k) ==
    IF k > Len(buf) THEN 0 ELSE BitBalance(buf[k], 0) + MonobitSum(buf, k + 1)

\* math.Erfc(sObs / math.Sqrt2) with sObs = |s| / sqrt(n), as a function of
\* s and n: 1 at s = 0 and falling towards 0 as s^2/n grows.  The error
\* function is replaced by n / (n + s^2).
ErfcOfBalance(s, n) == Float64Of(n, n + s * s)

nistFrequencyMonobitTest(buf) ==
    LET n == Len(buf) * ByteBits
    IN  IF n = 0 THEN Zero ELSE ErfcOfBalance(MonobitSum(buf, 1), n)

\* sum += int(b) for every byte of the data
RECURSIVE ByteSum(_, _)
ByteSum(buf, k) == IF k > Len(buf) THEN 0 ELSE buf[k] + ByteSum(buf, k + 1)

\* A faulty window that takes in the whole buffer.
sampleSizeUncapped(buf) == Len(buf)

\* sampleSize := len(data); if sampleSize > 50000 { sampleSize = 50000 }
sampleSize(buf) == IF Len(buf) > AutocorrCap THEN AutocorrCap ELSE Len(buf)

\* matches++ for every i in 1..sampleSize-1 with data[i] == data[i-1]
\* (positions are counted from 1 here, from 0 in the program)
Matches(buf) ==
    Cardinality({i \in 2..sampleSize(buf) : buf[i] = buf[i - 1]})

\* A faulty autocorrelation that divides by the number of bytes examined.
autocorrelationOverBytes(buf) ==
    FDiv(FromInt(Matches(buf)), FromInt(sampleSize(buf)))

\* autocorr = float64(matches) / float64(sampleSize-1)
autocorrelation(buf) ==
    FDiv(FromInt(Matches(buf)), FromInt(sampleSize(buf) - 1))

\* Analysis{}
ZeroAnalysis ==
    [Length |-> 0, Mean |-> Zero, ChiSquare |-> Zero, MinFreq |-> 0,
     MaxFreq |-> 0, FreqRange |-> 0, ShannonEntropy |-> Zero,
     Autocorrelation |-> Zero]

basicAnalysis(buf) ==
    IF Len(buf) = 0 THEN ZeroAnalysis
    ELSE LET counts == byteCounts(buf)
             minFreq == CHOOSE c \in {counts[b] : b \in ByteValues} :
                            \A b \in ByteValues : c <= counts[b]
             maxFreq == CHOOSE c \in {counts[b] : b \in ByteValues} :
                            \A b \in ByteValues : c >= counts[b]
         IN  [Length |-> Len(buf),
              Mean |-> FDiv(FromInt(ByteSum(buf, 1)), FromInt(Len(buf))),
              ChiSquare |-> ChiSquareSum(counts,
                                         FDiv(FromInt(Len(buf)), FromInt(NumByteValues)),
                                         0, Zero),
              MinFreq |-> minFreq,
              MaxFreq |-> maxFreq,
              FreqRange |-> maxFreq - minFreq,
              ShannonEntropy |-> ShannonSum(counts, Len(buf), 0, Zero),
              Autocorrelation |-> autocorrelation(buf)]

(***************************************************************************)
(* SpecAnalyze: the analyzer functions called on a buffer.  The buffers    *)
(* are all byte strings of up to MaxBuf bytes over three byte values, the  *)
(* buffers of one repeated byte, and buffers holding every byte value once.*)
(***************************************************************************)
MaxBuf == AutocorrCap + 2

SampleBytes == {0, 1, NumByteValues - 1}

Repeated(b, n) == [i \in 1..n |-> b]

Ascending == [i \in 1..NumByteValues |-> i - 1]
Descending == [i \in 1..NumByteValues |-> NumByteValues - i]

SampleBuffers ==
    UNION {[1..n -> SampleBytes] : n \in 0..MaxBuf}
    \cup {Repeated(b, n) : b \in ByteValues, n \in 1..MaxBuf}
    \cup {Ascending, Descending}

InitAnalyze ==
    /\ GenIdle /\ BesideGenIdle
    /\ variant = "HybridV2"
    /\ now \in StartTime
    /\ input \in SampleBuffers
    /\ output = <<>>

\* One pass of the analyzer functions over the buffer.
Analyze ==
    /\ output = <<>>
    /\ \E h \in calculateShannonEntropy(input) :
          output' = [basic |-> basicAnalysis(input),
                     chiSquare |-> calculateChiSquare(input),
                     shannon |-> h,
                     monobit |-> nistFrequencyMonobitTest(input)]
    /\ UNCHANGED <<genVars, twinVars, gatherVars, orchVars, input>>

NextAnalyze == Analyze

SpecAnalyze == InitAnalyze /\ [][NextAnalyze]_vars

\* C22: on the empty buffer no analyzer function divides by zero:
\* calculateChiSquare, calculateShannonEntropy and nistFrequencyMonobitTest
\* return 0 and basicAnalysis returns the all-zero Analysis.
C22_EmptyBuffer ==
    (Len(input) = 0 /\ output # <<>>)
    => /\ output.chiSquare = Zero
       /\ output.shannon = Zero
       /\ output.monobit = Zero
       /\ output.basic = ZeroAnalysis

C22_Witness == Len(input) = 0 /\ output # <<>> /\ output.basic.Length = 0

\* The buffer is one byte value repeated.
OneValue(buf) == \A i \in DOMAIN buf : buf[i] = buf[1]

\* C23: for every buffer of more than one byte that repeats one byte value,
\* basicAnalysis reports Shannon entropy 0 and autocorrelation 1: every
\* adjacent pair of the examined window matches.
C23_RepeatedByte ==
    (output # <<>> /\ Len(input) > 1 /\ OneValue(input))
    => /\ output.basic.ShannonEntropy = Zero
       /\ Matches(input) = sampleSize(input) - 1
       /\ output.basic.Autocorrelation = FromInt(1)

C23_Witness ==
    /\ output # <<>> /\ Len(input) = MaxBuf /\ OneValue(input) /\ input[1] = 2
    /\ output.basic.Autocorrelation = FromInt(1)
    /\ output.basic.MaxFreq = MaxBuf

\* The buffer holds every byte value exactly once.
EveryValueOnce(buf) ==
    /\ Len(buf) = NumByteValues
    /\ \A b \in ByteValues : Cardinality({i \in DOMAIN buf : buf[i] = b}) = 1

\* C24: for a buffer that holds each of the 2^ByteBits byte values exactly
\* once (256 bytes in the program), the chi-square statistic is 0, the
\* Shannon entropy is exactly ByteBits (8) bits per byte, in basicAnalysis
\* and in the stand-alone functions alike, and MinFreq = MaxFreq = 1 with
\* FreqRange = 0.
C24_UniformBuffer ==
    (output # <<>> /\ EveryValueOnce(input))
    => /\ output.basic.ChiSquare = Zero
       /\ output.chiSquare = Zero
       /\ output.basic.ShannonEntropy = FromInt(ByteBits)
       /\ output.shannon = FromInt(ByteBits)
       /\ output.basic.MinFreq = 1 /\ output.basic.MaxFreq = 1
       /\ output.basic.FreqRange = 0

C24_Witness ==
    /\ output # <<>> /\ input = Descending
    /\ output.basic.Length = NumByteValues
    /\ output.shannon = FromInt(ByteBits)

\* The bytes the autocorrelation loop reads.
Window(buf) == SubSeq(buf, 1, IF Len(buf) > AutocorrCap THEN AutocorrCap ELSE Len(buf))

\* C30: basicAnalysis computes the lag-1 autocorrelation over the first
\* min(len, AutocorrCap) bytes only (the cap is 50000 in the program): it is
\* the number of positions of that window whose byte equals the byte before
\* it, divided by the window length minus one, and it is the value the
\* window alone would give: bytes beyond the cap have no influence.
C30_AutocorrelationWindow ==
    (output # <<>> /\ Len(input) > 0)
    => LET w == Len(Window(input))
           matches == Cardinality({i \in 2..w : input[i] = input[i - 1]})
       IN  /\ w = IF Len(input) < AutocorrCap THEN Len(input) ELSE AutocorrCap
           /\ output.basic.Autocorrelation = FDiv(FromInt(matches), FromInt(w - 1))
           /\ output.basic.Autocorrelation = basicAnalysis(Window(input)).Autocorrelation

C30_Witness ==
    /\ output # <<>> /\ Len(input) = AutocorrCap + 2
    /\ input[AutocorrCap + 1] = input[AutocorrCap]
    /\ input[AutocorrCap + 2] = input[AutocorrCap + 1]
    /\ \A i \in 2..AutocorrCap : input[i] # input[i - 1]
    /\ output.basic.Autocorrelation = Zero

(***************************************************************************)
(* SpecPerf: performanceTest called on its own, for a generator call of    *)
(* testSize bytes that fails, or succeeds after elapsed microseconds.      *)
(***************************************************************************)
Second == 1000000
MaxElapsed == 2

\* duration.Seconds()
Seconds(duration) == FDiv(FromInt(duration), FromInt(Second))

\* What performanceTest returns beside the data: (duration, throughputMBs,
\* err), with throughputMBs =
\* float64(testSize) / duration.Seconds() / (1024 * 1024).
performanceTest(testSize, elapsed, err) ==
    IF err # "nil"
    THEN [duration |-> 0, throughputMBs |-> Zero, err |-> err]
    ELSE LET duration == MeasuredDuration(elapsed)
         IN  [duration |-> duration,
              throughputMBs |-> FDiv(FDiv(FromInt(testSize), Seconds(duration)),
                                     FromInt(1024 * 1024)),
              err |-> "nil"]

InitPerf ==
    /\ GenIdle /\ BesideGenIdle
    /\ variant = "HybridV2"
    /\ now \in StartTime
    /\ input \in [testSize : 0..MaxBytes, elapsed : 0..MaxElapsed, err : {"nil", "err"}]
    /\ output = <<>>

Measure ==
    /\ output = <<>>
    /\ output' = performanceTest(input.testSize, input.elapsed, input.err)
    /\ UNCHANGED <<genVars, twinVars, gatherVars, orchVars, input>>

NextPerf == Measure

SpecPerf == InitPerf /\ [][NextPerf]_vars

\* C21: performanceTest floors the measured duration at one microsecond, so
\* for every successful call with testSize > 0 the Duration returned is at
\* least one microsecond, the divisor duration.Seconds() of the throughput
\* is not zero, and the throughput is a finite, strictly positive number.
C21_DurationFloor ==
    (output # <<>> /\ input.err = "nil" /\ input.testSize > 0)
    => /\ output.duration >= Microsecond
       /\ output.duration = (IF input.elapsed < Microsecond THEN Microsecond
                             ELSE input.elapsed)
       /\ Positive(Seconds(output.duration))
       /\ output.throughputMBs[2] # 0
       /\ Positive(output.throughputMBs)

C21_Witness ==
    /\ output # <<>> /\ input.err = "nil" /\ input.testSize = 1 /\ input.elapsed = 0
    /\ output.duration = Microsecond
    /\ Positive(output.throughputMBs) /\ output.throughputMBs[2] # 0

(***************************************************************************)
(* Claims about the totals and averages of aggregateResults.               *)
(***************************************************************************)
\* The successful results of a name, in list order.
SuccessesOf(rs, name) ==
    SelectSeq(rs, LAMBDA r : r.Name = name /\ r.Error = "nil")

RECURSIVE IntSum(_)
IntSum(xs) == IF xs = <<>> THEN 0 ELSE Head(xs) + IntSum(Tail(xs))

\* The float64 sum of a list, taken from the left.
RECURSIVE FloatSum(_, _)
FloatSum(xs, acc) ==
    IF xs = <<>> THEN acc ELSE FloatSum(Tail(xs), Float64Add(acc, Head(xs)))

\* C29: for every generator name, TotalDataGenerated is the sum of
\* Analysis.Length over its successful results; if it has successful
\* results, AvgDuration, AvgThroughput and the averaged Analysis fields are
\* the sums over the successful results (integers exactly, floats added in
\* list order) divided by SuccessfulTests (integers by integer division);
\* the failed results count in TotalTests and FailedTests and in nothing
\* else: without them the entry is the same but for these two counts.
C29_AggregateTotals ==
    mainpc = "done"
    => \A name \in DOMAIN stats :
          LET ok == SuccessesOf(allResults, name)
              n == Len(ok)
              of(f(_)) == [k \in 1..n |-> f(ok[k])]
              length(r) == r.Analysis.Length
              range(r) == r.Analysis.FreqRange
              shannon(r) == r.Analysis.ShannonEntropy
              duration(r) == r.Duration
              throughput(r) == r.Throughput
              clean == aggregateResults(SelectSeq(allResults, LAMBDA r : r.Error = "nil"))
          IN  /\ stats[name].SuccessfulTests = n
              /\ stats[name].TotalDataGenerated = IntSum(of(length))
              /\ n > 0
                 => /\ stats[name].AvgDuration = IntSum(of(duration)) \div n
                    /\ stats[name].AvgThroughput
                          = Float64Div(FloatSum(of(throughput), 0), n)
                    /\ stats[name].AvgAnalysis.FreqRange = IntSum(of(range)) \div n
                    /\ stats[name].AvgAnalysis.ShannonEntropy
                          = Float64Div(FloatSum(of(shannon), 0), n)
                    /\ name \in DOMAIN clean
                    /\ clean[name]
                          = [stats[name] EXCEPT !.TotalTests = n, !.FailedTests = 0]
              /\ n = 0
                 => stats[name]
                       = [NewAggregatedResult(name) EXCEPT
                             !.TotalTests = stats[name].FailedTests,
                             !.FailedTests = stats[name].FailedTests]

C29_Witness ==
    /\ mainpc = "done"
    /\ Len(allResults) = MaxResults
    /\ \E name \in DOMAIN stats :
          /\ stats[name].SuccessfulTests = 2 /\ stats[name].FailedTests = 1
          /\ allResults[2].Name = name /\ allResults[2].Error # "nil"
          /\ allResults[1].Duration # allResults[3].Duration
          /\ stats[name].AvgAnalysis.FreqRange = 4
          /\ stats[name].TotalDataGenerated = 3 * 1024 * 1024

(***************************************************************************)
(* Claims about the divisor of the autocorrelation.                        *)
(***************************************************************************)
\* 0 <= x <= 1 for a float64 that is a number.
UnitRatio(x) == x[2] # 0 /\ x[1] >= 0 /\ x[1] <= x[2]

\* C31: for every non-empty buffer, a buffer of one byte included,
\* basicAnalysis divides the number of matches by a divisor sampleSize - 1
\* that is not zero, and Autocorrelation is a number between 0 and 1.
C31_AutocorrelationDefined ==
    (output # <<>> /\ Len(input) > 0)
    => /\ sampleSize(input) - 1 # 0
       /\ UnitRatio(output.basic.Autocorrelation)

\* The same for the buffers of two bytes or more.
C31_DefinedFromTwoBytes ==
    (output # <<>> /\ Len(input) > 1)
    => /\ sampleSize(input) - 1 # 0
       /\ UnitRatio(output.basic.Autocorrelation)

(***************************************************************************)
(* Claims about the block counter over the lifetime of an instance.        *)
(***************************************************************************)
\* The blocks the callers have taken from the instance so far.
BlocksTaken ==
    LET upTo[k \in 0..NumThreads] ==
            IF k = 0 THEN 0 ELSE thr[k].blocks + upTo[k - 1]
    IN  upTo[NumThreads]

\* C32: over the lifetime of an instance, across the GenerateBytes calls of
\* all its callers and the reseeds between them, the counter is written by
\* the generation loop only: it goes up by one with every block, no other
\* step (reseed, state update, accounting) changes it, and it never goes
\* down; so the k-th block of the instance is made from counter value k - 1
\* and no value serves two blocks.
C32_CounterNeverReused ==
    /\ [](ctor = "done" => gen.counter = BlocksTaken)
    /\ [][/\ gen'.counter >= gen.counter
          /\ \A t \in Threads : BlockTaken(t) => gen'.counter = gen.counter + 1
          /\ gen'.counter # gen.counter => \E t \in Threads : BlockTaken(t)
          /\ ReseedStep => gen'.counter = gen.counter]_vars

C32_Witness ==
    /\ \A t \in Threads : thr[t].pc = "done" /\ thr[t].n = MaxBytes
    /\ \E t \in Threads : thr[t].reseeds = 1 /\ thr[t].pre.counter > 0
    /\ gen.counter = NumThreads * CeilDiv(MaxBytes, BlockSize)

(***************************************************************************)
(* Claims about a panic inside a trial's generator call.                   *)
(***************************************************************************)
\* SpecPanic: runs in which every trial shares one instance of the generator
\* whose GenerateBytes can panic.  Its calls return data or panic and never
\* return an error, so no trial sleeps in a backoff.
PanicSettings ==
    {S \in SharedSettings : \A k \in DOMAIN S.generators :
                                "panic" \in GenOutcomes(S.generators[k])}

NextPanic ==
    \/ \E i \in Trials : Launch(i)
    \/ Launched
    \/ \E i \in Trials : Acquire(i)
    \/ \E i \in Trials : GenLock(i)
    \/ \E i \in Trials : Attempt(i)
    \/ \E i \in Trials : SendResult(i)
    \/ \E i \in Trials : Increment(i)
    \/ \E i \in Trials : Release(i)
    \/ \E i \in Trials : WgDone(i)
    \/ Close
    \/ Collect
    \/ CollectDone
    \/ Aggregate

SpecPanic ==
    /\ \E S \in PanicSettings : InitRun(S)
    /\ [][NextPanic]_vars
    /\ WF_vars(Scheduled)

\* The generator call of trial i panics in this step.
Panics(i) ==
    /\ trial[i].pc = "generate"
    /\ Len(trial'[i].outs) = Len(trial[i].outs) + 1
    /\ trial'[i].outs[Len(trial'[i].outs)] = "panic"

\* The results delivered for trial i.
ResultsFor(i) == {k \in DOMAIN Delivered : Delivered[k].trial = i}

\* C33: when the generator call of a trial panics, the mutex of the
\* generator is free again after the step (deferred Unlock), the trial makes
\* no further attempt and goes on to the deferred function of runSingleTest,
\* which sends exactly one TestResult, with Error set, and counts the trial
\* once; the trial then gives back its slot and signals the wait group, and
\* under fair scheduling the whole run ends with every trial finished, the
\* trials sharing the generator included, no slot held, the wait group at 0.
C33_PanicContained ==
    /\ [][\A i \in Trials :
             /\ Panics(i) => /\ genMutex'[InstanceOf(i)] = 0
                             /\ trial'[i].pc = "send"
                             /\ trial'[i].err # "nil"
             /\ (trial[i].err = "panic" /\ trial[i].pc = "increment"
                 /\ trial'[i].pc # "increment")
                => tracker' = tracker + 1]_vars
    /\ [](\A i \in Trials :
             trial[i].err = "panic"
             => /\ trial[i].pc \in {"send", "increment", "release", "wgdone", "finished"}
                /\ Cardinality(ResultsFor(i)) = (IF trial[i].pc = "send" THEN 0 ELSE 1)
                /\ \A k \in ResultsFor(i) : Delivered[k].Error = "panic"
                /\ (i \in Counted) = (trial[i].pc \notin {"send", "increment"}))
    /\ (\E i \in Trials : trial[i].err = "panic") ~> (RunOver /\ tracker = totalTests)

C33_Witness ==
    /\ RunOver /\ mainpc = "done" /\ Locks(GeneratorOf(1))
    /\ \E i, j \in Trials :
          /\ InstanceOf(i) = InstanceOf(j)
          /\ trial[i].err = "panic" /\ trial[j].err = "nil"
          /\ allResults[1].trial = i /\ allResults[2].trial = j

(***************************************************************************)
(* Claims about the results channel.                                       *)
(***************************************************************************)
\* C34: a worker that is about to send finds the results channel open and
\* with room (its capacity is the number of trials), so the send neither
\* panics nor blocks; the channel is closed only when every worker has sent
\* and finished; results leave the channel only into the collector's list,
\* in the order sent; and when the collector signals completion the channel
\* is closed and empty and the list holds the result of every trial.
C34_ChannelProtocol ==
    /\ [](/\ Len(resultsChannel) <= totalTests
          /\ \A i \in Trials :
                trial[i].pc = "send"
                => ~chClosed /\ Len(resultsChannel) < totalTests
          /\ chClosed => /\ \A i \in Trials : trial[i].pc = "finished"
                         /\ Len(Delivered) = totalTests
          /\ mainpc \in {"report", "done"}
             => /\ chClosed /\ resultsChannel = <<>>
                /\ Len(allResults) = totalTests
                /\ \A i \in Trials : \E k \in DOMAIN allResults :
                                         allResults[k].trial = i)
    /\ [][\/ Delivered' = Delivered
          \/ \E i \in Trials : /\ trial[i].pc = "send"
                               /\ Delivered' = Append(Delivered, ResultOf(i))]_vars

C34_Witness ==
    /\ ~chClosed /\ totalTests > 1
    /\ Len(resultsChannel) = totalTests - 1
    /\ \E i \in Trials : trial[i].pc = "send"

(***************************************************************************)
(* Claims about the order of the steps of a trial.                         *)
(***************************************************************************)
\* The trials that have taken a semaphore slot, released since or not.
Admitted == {i \in Trials : trial[i].pc \notin {"none", "acquire"}}

\* C35: in every state of a run, progress.completed <= the number of
\* TestResults sent to the results channel <= the number of trials that
\* have acquired a semaphore slot <= the number of trials; a trial that has
\* been counted has sent its result, and a trial that has given back its
\* slot has sent its result and been counted.
C35_ProgressOrder ==
    /\ tracker <= Len(Delivered)
    /\ Len(Delivered) <= Cardinality(Admitted)
    /\ Cardinality(Admitted) <= totalTests
    /\ \A i \in Trials :
          /\ i \in Counted => ResultsFor(i) # {}
          /\ ResultsFor(i) # {} => i \in Admitted
          /\ trial[i].pc \in {"wgdone", "finished"} => i \in Counted

C35_Witness ==
    /\ tracker < Len(Delivered)
    /\ Len(Delivered) < Cardinality(Admitted)
    /\ \E i \in Trials : trial[i].pc = "backoff"

\* The trials that have given their slot back.
Released == {i \in Trials : trial[i].pc \in {"wgdone", "finished"}}

\* C36: a trial takes one semaphore slot before its first generator call and
\* holds it through every attempt, every backoff sleep, the analysis and the
\* sending of its result: the slots held are at every moment the trials
\* admitted and not yet released, a slot is taken only by a trial entering
\* and given back only by a trial leaving, no trial enters or leaves twice,
\* and when the run has finished no slot is held.
C36_SlotHeldThroughTrial ==
    /\ [](/\ semaphore = Cardinality(Admitted \ Released)
          /\ \A i \in Trials :
                /\ trial[i].pc \in {"none", "acquire"}
                   => trial[i].outs = <<>> /\ trial[i].waits = <<>>
                /\ trial[i].pc \in {"attempt", "generate", "backoff", "send", "increment"}
                   => i \in Admitted \ Released
          /\ mainpc \in {"report", "done"} => semaphore = 0 /\ Released = Trials)
    /\ [][/\ semaphore' = semaphore + Cardinality(Admitted' \ Admitted)
                                    - Cardinality(Released' \ Released)
          /\ Admitted \subseteq Admitted'
          /\ Released \subseteq Released'
          /\ \A i \in Trials :
                (trial[i].pc \in {"generate", "backoff"} /\ trial'[i] # trial[i])
                => semaphore' = semaphore]_vars

C36_Witness ==
    /\ semaphore = settings.maxConcurrency /\ settings.maxConcurrency > 1
    /\ \E i, j \in Trials :
          /\ trial[i].pc = "send" /\ Len(trial[i].waits) = maxRetries
          /\ trial[j].pc = "backoff"

(***************************************************************************)
(* Claims about the minima and maxima of aggregateResults.                 *)
(***************************************************************************)
\* The least and the greatest value of a non-empty list of numbers.
Least(xs) == CHOOSE x \in {xs[k] : k \in DOMAIN xs} : \A k \in DOMAIN xs : x <= xs[k]
Greatest(xs) == CHOOSE x \in {xs[k] : k \in DOMAIN xs} : \A k \in DOMAIN xs : x >= xs[k]

\* For the generator of the given name, the minima and maxima reported are
\* those of its successful results, and the average duration lies between.
TrueMinMax(name) ==
    LET ok == SuccessesOf(allResults, name)
        durations == [k \in DOMAIN ok |-> ok[k].Duration]
        throughputs == [k \in DOMAIN ok |-> ok[k].Throughput]
    IN  /\ stats[name].MinDuration = Least(durations)
        /\ stats[name].MaxDuration = Greatest(durations)
        /\ stats[name].MinThroughput = Least(throughputs)
        /\ stats[name].MaxThroughput = Greatest(throughputs)
        /\ stats[name].MinDuration <= stats[name].AvgDuration
        /\ stats[name].AvgDuration <= stats[name].MaxDuration

\* C37: for every generator with a successful trial, aggregateResults
\* reports as MinDuration, MaxDuration, MinThroughput and MaxThroughput the
\* least and the greatest duration and throughput of its successful trials,
\* whatever these values are, and MinDuration <= AvgDuration <= MaxDuration.
C37_TrueMinMax ==
    mainpc = "done"
    => \A name \in DOMAIN stats :
          stats[name].SuccessfulTests > 0 => TrueMinMax(name)

\* The same for the generators one of whose successful trials took no
\* longer than an hour.
C37_MinMaxWithinTheHour ==
    mainpc = "done"
    => \A name \in DOMAIN stats :
          (\E k \in DOMAIN allResults :
              /\ allResults[k].Name = name /\ allResults[k].Error = "nil"
              /\ allResults[k].Duration <= Hour)
          => TrueMinMax(name)

(***************************************************************************)
(* SpecSplit: two instances of a draft with the per-block state update     *)
(* start from the same seed and counter; the first serves GenerateBytes(a) *)
(* and then GenerateBytes(b), the second one GenerateBytes(a + b).  The    *)
(* script holds a and b.                                                   *)
(***************************************************************************)
SplitSizes == {0, 1, BlockSize, 2 * BlockSize}

InitSplit ==
    /\ GenIdle /\ GatherIdle /\ OrchIdle /\ AnalyzerIdle
    /\ variant \in {v \in Variants : Reseeding(v)}
    /\ now \in StartTime
    /\ script \in {<<a, b>> : a \in SplitSizes, b \in Sizes}
    /\ \E g \in TwinStarts(variant, now) :
          twin = [i \in Twins |-> [g |-> g, outs |-> <<>>, reseeded |-> FALSE]]

\* The first instance serves the next of its two calls.
SplitCall ==
    /\ Len(twin[1].outs) < Len(script)
    /\ \E e \in CoarseObs(variant) :
          twin' = [twin EXCEPT ![1] =
                Served(twin[1],
                       GenerateBytesCall(variant, twin[1].g,
                                         script[Len(twin[1].outs) + 1], now, now, e))]
    /\ UNCHANGED <<variant, gen, ctor, mutex, thr, now, hist, gen0, ctorObs>>
    /\ UNCHANGED <<script, gatherVars, orchVars, analyzerVars>>

\* The second instance serves its one call.
WholeCall ==
    /\ twin[2].outs = <<>>
    /\ \E e \in CoarseObs(variant) :
          twin' = [twin EXCEPT ![2] =
                Served(twin[2],
                       GenerateBytesCall(variant, twin[2].g,
                                         script[1] + script[2], now, now, e))]
    /\ UNCHANGED <<variant, gen, ctor, mutex, thr, now, hist, gen0, ctorObs>>
    /\ UNCHANGED <<script, gatherVars, orchVars, analyzerVars>>

NextSplit ==
    \/ SplitCall
    \/ WholeCall
    \/ ReplayTick

SpecSplit == InitSplit /\ [][NextSplit]_vars

\* Both instances have served their calls and neither has reseeded.
SplitDone ==
    /\ Len(twin[1].outs) = 2 /\ Len(twin[2].outs) = 1
    /\ ~twin[1].reseeded /\ ~twin[2].reseeded

\* C38: in the drafts that update the seed after every block, if a is a
\* multiple of the block size and no reseed is triggered, GenerateBytes(a)
\* followed by GenerateBytes(b) returns, concatenated, the bytes that one
\* GenerateBytes(a + b) returns from the same start, and both leave the
\* same seed and counter.
C38_CallBoundaryIndependence ==
    (SplitDone /\ script[1] % BlockSize = 0)
    => /\ twin[1].outs[1].bytes \o twin[1].outs[2].bytes = twin[2].outs[1].bytes
       /\ twin[1].g.state = twin[2].g.state
       /\ twin[1].g.counter = twin[2].g.counter

C38_Witness ==
    /\ SplitDone /\ variant = "MultiV3"
    /\ script = <<2 * BlockSize, BlockSize + 1>>
    /\ Len(twin[2].outs[1].bytes) = 3 * BlockSize + 1
    /\ twin[2].g.counter = twin[1].g.counter
    /\ twin[1].outs[1].bytes # twin[1].outs[2].bytes \o Zeros(BlockSize - 1)
    /\ twin[1].g.lastReseed < now

(***************************************************************************)
(* SpecBench: the sequential benchmark loop runBenchmark, iteration by     *)
(* iteration.  input holds the arguments (iterations, dataSize); output    *)
(* holds the locals of the loop, the outcome of every iteration so far     *)
(* (log) and, when the function has returned, the TestResult.              *)
(***************************************************************************)
MaxIterations == 3
MaxDataSize == 4

\* x >= y for float64 values; false if one of them is NaN.
FGe(x, y) == x[2] # 0 /\ y[2] # 0 /\ x[1] * y[2] >= y[1] * x[2]

\* The level 0.01 of "nistPValue >= 0.01".  With the error function replaced
\* as in ErfcOfBalance the p-value is n / (n + s^2); erfc(x / sqrt 2) = 0.01
\* at x^2 = s^2 / n = 6.635, which is the value 1 / (1 + 6.635) of the
\* replacement.
PassLevel == <<1000, 7635>>

\* The buffers a generator returns for dataSize bytes: all bits set, a fixed
\* low byte value, and the byte values in turn.
BenchBuffers(dataSize) ==
    {Repeated(NumByteValues - 1, dataSize), Repeated(1, dataSize),
     [k \in 1..dataSize |-> (k - 1) % NumByteValues]}

\* What one GenerateBytes call of the loop can do: fail, or return a buffer
\* after a duration of 0 or 1 microseconds.
BenchOutcomes(dataSize) ==
    {[err |-> "err", data |-> <<>>, duration |-> d] : d \in 0..1}
    \cup {[err |-> "nil", data |-> b, duration |-> d] :
             b \in BenchBuffers(dataSize), d \in 0..1}

\* The locals of runBenchmark before the first iteration.
BenchStart ==
    [i |-> 0, totalTime |-> 0, totalChiSquare |-> Zero,
     totalShannonEntropy |-> Zero, totalNISTMonobitPValue |-> Zero,
     passedNIST |-> 0, log |-> <<>>, result |-> <<>>]

\* What the log keeps of an iteration.
Logged(o, h) ==
    [err |-> o.err, duration |-> o.duration, chiSquare |-> calculateChiSquare(o.data),
     shannon |-> h, pValue |-> nistFrequencyMonobitTest(o.data)]

\* A faulty loop body that adds the duration before it looks at the error.
BenchStepTimesFailures(st, o, h) ==
    IF o.err # "nil"
    THEN [st EXCEPT !.i = @ + 1, !.totalTime = @ + o.duration,
                    !.log = Append(@, Logged(o, h))]
    ELSE LET nistPValue == nistFrequencyMonobitTest(o.data)
         IN  [st EXCEPT
                !.i = @ + 1,
                !.totalTime = @ + o.duration,
                !.totalChiSquare = FAdd(@, calculateChiSquare(o.data)),
                !.totalShannonEntropy = FAdd(@, h),
                !.totalNISTMonobitPValue = FAdd(@, nistPValue),
                !.passedNIST = IF FGe(nistPValue, PassLevel) THEN @ + 1 ELSE @,
                !.log = Append(@, Logged(o, h))]

\* The body of the loop of runBenchmark for a call with outcome o, h being
\* the value calculateShannonEntropy returns for the data.
BenchStep(st, o, h) ==
    IF o.err # "nil"
    THEN [st EXCEPT !.i = @ + 1, !.log = Append(@, Logged(o, h))]
    ELSE LET nistPValue == nistFrequencyMonobitTest(o.data)
         IN  [st EXCEPT
                !.i = @ + 1,
                !.totalTime = @ + o.duration,
                !.totalChiSquare = FAdd(@, calculateChiSquare(o.data)),
                !.totalShannonEntropy = FAdd(@, h),
                !.totalNISTMonobitPValue = FAdd(@, nistPValue),
                !.passedNIST = IF FGe(nistPValue, PassLevel) THEN @ + 1 ELSE @,
                !.log = Append(@, Logged(o, h))]

\* The TestResult runBenchmark returns.
BenchResult(st, iterations) ==
    [TotalTime |-> st.totalTime,
     AvgOpsPerSec |-> FDiv(FromInt(iterations), Seconds(st.totalTime)),
     AvgChiSquare |-> FDiv(st.totalChiSquare, FromInt(iterations)),
     AvgShannonEntropy |-> FDiv(st.totalShannonEntropy, FromInt(iterations)),
     AvgNISTMonobitPValue |-> FDiv(st.totalNISTMonobitPValue, FromInt(iterations)),
     PassedNISTMonobit |-> st.passedNIST,
     TotalIterations |-> iterations]

InitBench ==
    /\ GenIdle /\ BesideGenIdle
    /\ variant = "HybridV2"
    /\ now \in StartTime
    /\ input \in [iterations : 0..MaxIterations, dataSize : {0, MaxDataSize}]
    /\ output = BenchStart

\* for i := 0; i < iterations; i++ { ... }
Iterate ==
    /\ output.i < input.iterations
    /\ \E o \in BenchOutcomes(input.dataSize) :
          \E h \in calculateShannonEntropy(o.data) :
              output' = BenchStep(output, o, h)
    /\ UNCHANGED <<genVars, twinVars, gatherVars, orchVars, input>>

\* The loop is over: the averages are taken and the TestResult is returned.
Return ==
    /\ output.i >= input.iterations
    /\ output.result = <<>>
    /\ output' = [output EXCEPT !.result = BenchResult(output, input.iterations)]
    /\ UNCHANGED <<genVars, twinVars, gatherVars, orchVars, input>>

NextBench ==
    \/ Iterate
    \/ Return

SpecBench == InitBench /\ [][NextBench]_vars

\* The iterations of the log whose call succeeded.
Succeeded(log) == SelectSeq(log, LAMBDA x : x.err = "nil")

\* The float64 sum of a field of the logged iterations, from the left.
RECURSIVE FieldSum(_, _, _)
FieldSum(xs, field, acc) ==
    IF xs = <<>> THEN acc ELSE FieldSum(Tail(xs), field, FAdd(acc, Head(xs)[field]))

\* C39: in runBenchmark an iteration whose GenerateBytes fails adds nothing
\* to the time, chi-square, entropy or p-value totals and to the pass count,
\* and the loop goes on to the next iteration; the totals are those of the
\* successful iterations alone; the TestResult has TotalIterations =
\* iterations and 0 <= PassedNISTMonobit <= successful iterations <=
\* TotalIterations, PassedNISTMonobit being the number of successful
\* iterations whose monobit p-value is at least the pass level.
C39_BenchmarkLoop ==
    /\ [](LET ok == Succeeded(output.log)
          IN  /\ Len(output.log) = output.i /\ output.i <= input.iterations
              /\ output.totalTime = IntSum([k \in DOMAIN ok |-> ok[k].duration])
              /\ output.totalChiSquare = FieldSum(ok, "chiSquare", Zero)
              /\ output.totalShannonEntropy = FieldSum(ok, "shannon", Zero)
              /\ output.totalNISTMonobitPValue = FieldSum(ok, "pValue", Zero)
              /\ output.passedNIST
                    = Cardinality({k \in DOMAIN ok : FGe(ok[k].pValue, PassLevel)})
              /\ 0 <= output.passedNIST /\ output.passedNIST <= Len(ok)
              /\ output.result # <<>>
                 => /\ output.i = input.iterations
                    /\ output.result.TotalIterations = input.iterations
                    /\ output.result.TotalTime = output.totalTime
                    /\ output.result.PassedNISTMonobit = output.passedNIST
                    /\ Len(ok) <= output.result.TotalIterations)
    /\ [][(Len(output'.log) = Len(output.log) + 1
           /\ output'.log[Len(output'.log)].err # "nil")
          => /\ output'.totalTime = output.totalTime
             /\ output'.totalChiSquare = output.totalChiSquare
             /\ output'.totalShannonEntropy = output.totalShannonEntropy
             /\ output'.totalNISTMonobitPValue = output.totalNISTMonobitPValue
             /\ output'.passedNIST = output.passedNIST
             /\ output'.i = output.i + 1
             /\ output'.result = <<>>]_vars

C39_Witness ==
    /\ output.result # <<>> /\ input.iterations = MaxIterations
    /\ input.dataSize = MaxDataSize
    /\ output.log[1].err = "err" /\ output.log[1].duration = 1
    /\ output.log[2].err = "nil" /\ ~FGe(output.log[2].pValue, PassLevel)
    /\ output.log[3].err = "nil" /\ FGe(output.log[3].pValue, PassLevel)
    /\ output.result.PassedNISTMonobit = 1
    /\ output.result.TotalTime = 1

(***************************************************************************)
(* SpecMath: callers of GenerateBytes of one InsecurePRNG (MathPRNG).      *)
(* input holds the number of bytes each caller asks for; output holds the  *)
(* lock of the instance, the number of values drawn from its rng, and the  *)
(* position, loop index, result and drawn values of every caller.  A       *)
(* uint32 is a pair <<high, low>> of 16-bit halves.                        *)
(***************************************************************************)
MaxRequest == 5
GroupSize == 4

\* Values rng.Uint32() returns: four different bytes, every bit set, and
\* the top bit alone.
Uint32Samples == {<<1027, 513>>, <<65535, 65535>>, <<32768, 0>>}

\* byte(val >> k) for k = 0, 8, 16, 24
ByteAt(val, k) ==
    IF k < 16 THEN (val[2] \div (2 ^ k)) % 256
    ELSE (val[1] \div (2 ^ (k - 16))) % 256

\* The offsets of a group of four that the loop body writes at index i.
Written(numBytes, i) == {k \in 0..(GroupSize - 1) : k = 0 \/ numBytes - i > k}

\* A faulty loop body that always writes four bytes.
WriteGroupWhole(result, numBytes, i, val) ==
    LET offsets == 0..(GroupSize - 1)
    IN  [result |-> [j \in 1..Len(result) |->
                        IF (j - 1 - i) \in offsets
                        THEN ByteAt(val, 8 * (j - 1 - i)) ELSE result[j]],
         panicked |-> \E k \in offsets : i + k >= Len(result)]

\* result[i] = byte(val); if remaining > 1 { result[i+1] = byte(val >> 8) }
\* ...: the result after the writes, and whether one of them indexes past
\* the end of the result (a run-time panic).
WriteGroup(result, numBytes, i, val) ==
    LET offsets == Written(numBytes, i)
    IN  [result |-> [j \in 1..Len(result) |->
                        IF (j - 1 - i) \in offsets
                        THEN ByteAt(val, 8 * (j - 1 - i)) ELSE result[j]],
         panicked |-> \E k \in offsets : i + k >= Len(result)]

MathIdle ==
    [pc |-> "idle", n |-> 0, i |-> 0, result |-> <<>>, vals |-> <<>>,
     panicked |-> FALSE]

InitMath ==
    /\ GenIdle /\ BesideGenIdle
    /\ variant = "HybridV2"
    /\ now \in StartTime
    /\ input \in [Threads -> 0..MaxRequest]
    /\ output = [lock |-> 0, drawn |-> 0, call |-> [t \in Threads |-> MathIdle]]

\* p.lock.Lock(); result := make([]byte, numBytes)
MathLock(t) ==
    /\ output.call[t].pc = "idle"
    /\ output.lock = 0
    /\ output' = [output EXCEPT !.lock = t,
                                !.call[t].pc = "loop",
                                !.call[t].n = input[t],
                                !.call[t].result = Zeros(input[t])]
    /\ UNCHANGED <<genVars, twinVars, gatherVars, orchVars, input>>

\* One iteration of "for i := 0; i < numBytes; i += 4".
MathGroup(t) ==
    /\ output.call[t].pc = "loop"
    /\ output.call[t].i < output.call[t].n
    /\ \E val \in Uint32Samples :
          LET c == output.call[t]
              w == WriteGroup(c.result, c.n, c.i, val)
          IN  output' = [output EXCEPT
                            !.drawn = @ + 1,
                            !.call[t].vals = Append(@, val),
                            !.call[t].result = w.result,
                            !.call[t].panicked = w.panicked,
                            !.call[t].i = IF w.panicked THEN @ ELSE @ + GroupSize,
                            !.call[t].pc = IF w.panicked THEN "unlock" ELSE @]
    /\ UNCHANGED <<genVars, twinVars, gatherVars, orchVars, input>>

\* return result, nil
MathLoopExit(t) ==
    /\ output.call[t].pc = "loop"
    /\ output.call[t].i >= output.call[t].n
    /\ output' = [output EXCEPT !.call[t].pc = "unlock"]
    /\ UNCHANGED <<genVars, twinVars, gatherVars, orchVars, input>>

\* The deferred p.lock.Unlock()
MathUnlock(t) ==
    /\ output.call[t].pc = "unlock"
    /\ output' = [output EXCEPT !.lock = 0, !.call[t].pc = "done"]
    /\ UNCHANGED <<genVars, twinVars, gatherVars, orchVars, input>>

NextMath ==
    \/ \E t \in Threads : MathLock(t)
    \/ \E t \in Threads : MathGroup(t)
    \/ \E t \in Threads : MathLoopExit(t)
    \/ \E t \in Threads : MathUnlock(t)

SpecMath == InitMath /\ [][NextMath]_vars

\* The values all callers have drawn.
ValuesDrawn ==
    LET upTo[k \in 0..NumThreads] ==
            IF k = 0 THEN 0 ELSE Len(output.call[k].vals) + upTo[k - 1]
    IN  upTo[NumThreads]

\* C40: InsecurePRNG.GenerateBytes(n) (MathPRNG alike) returns exactly n
\* bytes for every n >= 0; it holds the lock of the instance while it draws
\* and writes; it draws exactly ceil(n/4) 32-bit values, byte j of the
\* result being byte j mod 4 of value j div 4, lowest byte first; and no
\* write, the writes of a final partial group included, indexes past the
\* end of the result.
C40_MathBytes ==
    \A t \in Threads :
        LET c == output.call[t]
        IN  /\ ~c.panicked
            /\ c.pc \in {"loop", "unlock"} => output.lock = t
            /\ c.pc = "loop" => /\ Len(c.result) = c.n
                                /\ Len(c.vals) = c.i \div GroupSize
                                /\ c.i % GroupSize = 0
            /\ c.pc \in {"unlock", "done"}
               => /\ Len(c.result) = c.n /\ c.n = input[t]
                  /\ Len(c.vals) = CeilDiv(c.n, GroupSize)
                  /\ \A j \in 1..c.n :
                        c.result[j] = ByteAt(c.vals[((j - 1) \div GroupSize) + 1],
                                             8 * ((j - 1) % GroupSize))
            /\ output.drawn = ValuesDrawn

C40_Witness ==
    /\ \A t \in Threads : output.call[t].pc = "done"
    /\ output.call[1].n = MaxRequest /\ output.call[1].result = <<1, 2, 3, 4, 255>>
    /\ output.call[2].n = 3 /\ output.call[2].result = <<0, 0, 0>>
    /\ output.drawn = 3

====
